---- MODULE Spec2Model ----
(***************************************************************************)
(* Navigate-SensorHub: the concurrent data plane.                          *)
(*                                                                         *)
(*   polled sensor tasks (scheduler.rs)  --+                               *)
(*                                         +--> SensorHubService::publish  *)
(*   MAVLink receive loop (bus/mavlink.rs) |     (grpc_service.rs)         *)
(*     --> MavlinkSensor message loops   --+       --> subscriber streams  *)
(*                                                                         *)
(* tokio::sync::broadcast is modelled by its contract: one log per         *)
(* channel, of which the last `capacity` values are retained, a receiver   *)
(* count, and one cursor per receiver.                                     *)
(***************************************************************************)
EXTENDS Naturals, Integers, Sequences, FiniteSets, TLC

(***************************************************************************)
(* Bounds of the model.                                                    *)
(***************************************************************************)
\* highest sequence number a producer reaches (the u64 counters are capped)
MaxSeq == 3
\* capacity of a type-specific hub channel, scaled down from 1000 / 800
HubCap == 1
\* capacity of the MAVLink broadcast channel, scaled down from 1000
MavCap == 1
\* number of frames the serial stream delivers
MaxWire == 3
\* largest value (ns) read back by Instant::elapsed() in Header::new
MaxElapsed == 1
\* number of ticks of the wall clock
MaxWall == 2
\* number of failed flight-controller detections in a row
MaxAttempts == 7

\* `let mut backoff_ms = 100u64` and MAX_BACKOFF_MS of init_all
InitialBackoffMs == 100
MAX_BACKOFF_MS == 2000

\* Option<T>: None is the empty tuple, Some(x) the one-element tuple
None == << >>
Some(x) == << x >>
Unwrap(o) == o[1]

(***************************************************************************)
(* Configuration: sensors.toml and buses.toml of the modelled deployment.  *)
(***************************************************************************)
\* polled (register-bus) sensors: id -> driver
PolledDriver == [imu0 |-> "lsm6dsl", imu1 |-> "icm42688p", mag0 |-> "lis3mdl",
                 baro0 |-> "bmp388"]
PolledIds == DOMAIN PolledDriver
I2cBuses == {"i2c0", "i2c1"}
SerialBuses == {"serial0"}
\* Sensor::bus() of a polled sensor: the IMUs share a bus
BusOf(s) == IF s \in {"imu0", "imu1"} THEN "i2c0" ELSE "i2c1"

\* DetectedSensor
DetectedKinds == {"ScaledImu", "ScaledImu2", "ScaledImu3", "HighresImu",
                  "ScaledPressure", "AttitudeQuaternion"}
\* MavMessage variants the serial stream can carry
WireKinds == {"SCALED_IMU", "SCALED_IMU2", "SCALED_IMU3", "HIGHRES_IMU",
              "SCALED_PRESSURE", "ATTITUDE_QUATERNION", "HEARTBEAT", "OTHER"}

\* an id table with the first IMU and the barometer exchanged
MavSensorIdSwapped(d) ==
    CASE d = "ScaledImu"          -> "fc_baro0"
      [] d = "ScaledImu2"         -> "fc_imu1"
      [] d = "ScaledImu3"         -> "fc_imu2"
      [] d = "HighresImu"         -> "fc_imu_highres"
      [] d = "ScaledPressure"     -> "fc_imu0"
      [] d = "AttitudeQuaternion" -> "fc_attitude"

\* create_mavlink_sensor: DetectedSensor -> id
MavSensorId(d) ==
    CASE d = "ScaledImu"          -> "fc_imu0"
      [] d = "ScaledImu2"         -> "fc_imu1"
      [] d = "ScaledImu3"         -> "fc_imu2"
      [] d = "HighresImu"         -> "fc_imu_highres"
      [] d = "ScaledPressure"     -> "fc_baro0"
      [] d = "AttitudeQuaternion" -> "fc_attitude"

\* create_mavlink_sensor: DetectedSensor -> MavlinkSensorType
MavSensorType(d) ==
    CASE d = "ScaledImu"          -> [type |-> "Imu", instance |-> 0]
      [] d = "ScaledImu2"         -> [type |-> "Imu", instance |-> 1]
      [] d = "ScaledImu3"         -> [type |-> "Imu", instance |-> 2]
      [] d = "HighresImu"         -> [type |-> "HighresImu", instance |-> 0]
      [] d = "ScaledPressure"     -> [type |-> "Barometer", instance |-> 0]
      [] d = "AttitudeQuaternion" -> [type |-> "Attitude", instance |-> 0]

MavIds == {MavSensorId(d) : d \in DetectedKinds}
SensorIds == PolledIds \cup MavIds

(***************************************************************************)
(* SensorDataFrame: every field optional (None when absent).  Payload      *)
(* values are symbolic: the name of a vector quantity (for a gyro vector  *)
(* with the unit it is in), a temperature in degrees C, a pressure in Pa. *)
(***************************************************************************)
EmptyFrame ==
    [accel |-> None, gyro |-> None, mag |-> None, temp |-> None,
     pressure_static |-> None, pressure_pitot |-> None,
     quaternion |-> None, angular_velocity_body |-> None]

\* the gyro vector a source puts into its frame, by the unit its arithmetic
\* leaves it in.  lsm6dsl: raw * GYRO_SENSITIVITY_250DPS (8.75 / 1000, dps
\* per LSB); icm42688p: raw / GYRO_SENSITIVITY_250DPS (131 LSB per dps),
\* "Convert to degrees per second"; neither multiplies by pi / 180.
\* SCALED_IMU*: xgyro (mrad/s) / 1000; HIGHRES_IMU: xgyro, rad/s as sent.
GyroOf(source) ==
    CASE source \in {"lsm6dsl", "icm42688p"} -> "gyro_dps"
      [] source \in {"SCALED_IMU", "SCALED_IMU2", "SCALED_IMU3"} -> "gyro_rad_s"
      [] source = "HIGHRES_IMU" -> "gyro_rad_s"

\* the frame a register driver's read() returns on success
DriverFrame(driver) ==
    CASE driver = "lsm6dsl" ->
           [EmptyFrame EXCEPT !.accel = Some("accel"),
                              !.gyro = Some(GyroOf(driver)),
                              !.temp = Some(25)]
      [] driver = "icm42688p" ->
           [EmptyFrame EXCEPT !.accel = Some("accel"),
                              !.gyro = Some(GyroOf(driver)),
                              !.temp = Some(25)]
      [] driver = "lis3mdl" ->
           [EmptyFrame EXCEPT !.mag = Some("mag")]
      [] driver = "bmp388" ->
           [EmptyFrame EXCEPT !.temp = Some(25),
                              !.pressure_static = Some(101325)]

\* convert_*_to_frame of sensors/mavlink.rs, by wire kind
ConvertToFrame(wire) ==
    CASE wire \in {"SCALED_IMU", "SCALED_IMU2", "SCALED_IMU3"} ->
           [EmptyFrame EXCEPT !.accel = Some("accel"),
                              !.gyro = Some(GyroOf(wire))]
      [] wire = "HIGHRES_IMU" ->
           [EmptyFrame EXCEPT !.accel = Some("accel"),
                              !.gyro = Some(GyroOf(wire)),
                              !.temp = Some(25)]
      [] wire = "SCALED_PRESSURE" ->
           [EmptyFrame EXCEPT !.pressure_static = Some(101325),
                              !.temp = Some(25)]
      [] wire = "ATTITUDE_QUATERNION" ->
           [EmptyFrame EXCEPT !.quaternion = Some("q"),
                              !.angular_velocity_body = Some("rates")]

\* the match of start_message_loop: does this sensor type take this message?
Matches(stype, wire) ==
    \/ stype.type = "Imu" /\ stype.instance = 0 /\ wire = "SCALED_IMU"
    \/ stype.type = "Imu" /\ stype.instance = 1 /\ wire = "SCALED_IMU2"
    \/ stype.type = "Imu" /\ stype.instance = 2 /\ wire = "SCALED_IMU3"
    \/ stype.type = "HighresImu" /\ wire = "HIGHRES_IMU"
    \/ stype.type = "Barometer" /\ wire = "SCALED_PRESSURE"
    \/ stype.type = "Attitude" /\ wire = "ATTITUDE_QUATERNION"

(***************************************************************************)
(* Header::new                                                             *)
(***************************************************************************)
\* elapsed: what mono_start.elapsed() returns; utc: SystemTime::now()
HeaderNew(device_id, sensor_id, frame_id, seq, utc, elapsed) ==
    [device_id |-> device_id, sensor_id |-> sensor_id, frame_id |-> frame_id,
     seq |-> seq, t_utc_ns |-> utc, t_mono_ns |-> elapsed,
     pps_locked |-> FALSE, ptp_locked |-> FALSE, clock_err_ppb |-> 0,
     sigma_t_ns |-> 1000, schema_v |-> 1]

(***************************************************************************)
(* Derivation of messages from a frame.                                    *)
(***************************************************************************)
\* 44330 * (1 - (p / 101325)^0.1903) in metres, tabulated for the pressures
\* the model uses: 0 m at 101325 Pa, 988 m at 90000 Pa, 44330 m at 0 Pa
IsaAltitude(p) == IF p = 101325 THEN 0 ELSE IF p = 90000 THEN 988 ELSE 44330

\* the formula applied whatever the pressure
AltitudeUnguarded(pressure) == IsaAltitude(pressure)

\* `if pressure > 0.0 { 44330.0 * (1.0 - (pressure / 101325.0).powf(0.1903)) }
\* else { 0.0 }`
Altitude(pressure) == IF pressure > 0 THEN IsaAltitude(pressure) ELSE 0

\* Option::or
OptOr(a, b) == IF a # None THEN a ELSE b

\* an IMU message as soon as either of the two vectors is there
ImuPartEither(frame, header) ==
    IF frame.accel # None \/ frame.gyro # None
    THEN << [kind |-> "imu", h |-> header,
             accel |-> Unwrap(OptOr(frame.accel, Some("zero"))),
             gyro |-> Unwrap(OptOr(frame.gyro, Some("zero")))] >>
    ELSE << >>

ImuPart(frame, header) ==
    IF frame.accel # None /\ frame.gyro # None
    THEN << [kind |-> "imu", h |-> header,
             accel |-> Unwrap(frame.accel), gyro |-> Unwrap(frame.gyro)] >>
    ELSE << >>

MagPart(frame, header) ==
    IF frame.mag # None
    THEN << [kind |-> "mag", h |-> header, mag |-> Unwrap(frame.mag)] >>
    ELSE << >>

BaroPart(frame, header) ==
    LET pressure == OptOr(frame.pressure_static, frame.pressure_pitot) IN
    IF pressure # None
    THEN << [kind |-> "baro", h |-> header, pressure |-> Unwrap(pressure),
             temperature |-> IF frame.temp # None THEN Unwrap(frame.temp) ELSE 20,
             altitude |-> Altitude(Unwrap(pressure))] >>
    ELSE << >>

\* the `messages` vector built by the scheduler loop
SchedulerMessages(frame, header) ==
    ImuPart(frame, header) \o MagPart(frame, header) \o BaroPart(frame, header)

\* frame_to_grpc_messages of sensors/mavlink.rs
frame_to_grpc_messages(frame, header) ==
    ImuPart(frame, header) \o BaroPart(frame, header)


\* a conversion that narrows schema_v to eight bits and copies the wall
\* clock into both time fields
convert_header_narrowing(header) ==
    [device_id |-> header.device_id, sensor_id |-> header.sensor_id,
     frame_id |-> header.frame_id, seq |-> header.seq,
     t_utc_ns |-> header.t_utc_ns, t_mono_ns |-> header.t_utc_ns,
     pps_locked |-> header.pps_locked, ptp_locked |-> header.ptp_locked,
     clock_err_ppb |-> header.clock_err_ppb, sigma_t_ns |-> header.sigma_t_ns,
     schema_v |-> header.schema_v % 256]

\* convert_header: internal Header -> protobuf Header, field by field; the
\* only cast, `schema_v as u32`, widens a u16 and keeps its value
convert_header(header) ==
    [device_id |-> header.device_id, sensor_id |-> header.sensor_id,
     frame_id |-> header.frame_id, seq |-> header.seq,
     t_utc_ns |-> header.t_utc_ns, t_mono_ns |-> header.t_mono_ns,
     pps_locked |-> header.pps_locked, ptp_locked |-> header.ptp_locked,
     clock_err_ppb |-> header.clock_err_ppb, sigma_t_ns |-> header.sigma_t_ns,
     schema_v |-> header.schema_v]

\* the header a reader of the wire form gets back: the protobuf fields with
\* their own types, schema_v (uint32 on the wire) back in sixteen bits
header_from_proto(p) ==
    [device_id |-> p.device_id, sensor_id |-> p.sensor_id,
     frame_id |-> p.frame_id, seq |-> p.seq,
     t_utc_ns |-> p.t_utc_ns, t_mono_ns |-> p.t_mono_ns,
     pps_locked |-> p.pps_locked, ptp_locked |-> p.ptp_locked,
     clock_err_ppb |-> p.clock_err_ppb, sigma_t_ns |-> p.sigma_t_ns,
     schema_v |-> p.schema_v % 65536]

\* ImuData / MagnetometerData / BarometerData built by publish
ToProto(message) == [message EXCEPT !.h = convert_header(message.h)]

\* SensorData { data: Some(Data::<Kind>(..)) }: the unified envelope
Envelope(data) == [kind |-> "envelope", tag |-> data.kind, data |-> data]

(***************************************************************************)
(* tokio::sync::broadcast                                                  *)
(***************************************************************************)
NewChannel == [log |-> << >>, rx_cnt |-> 0]

\* a send that stores the value even when nobody listens
SendRetaining(ch, v) == [ch EXCEPT !.log = Append(@, v)]

\* a send that puts the value in front of the retained ones
SendPrepending(ch, v) ==
    IF ch.rx_cnt = 0 THEN ch ELSE [ch EXCEPT !.log = << v >> \o @]

\* Sender::send: with no receiver the value is handed back and not stored
Send(ch, v) ==
    IF ch.rx_cnt = 0 THEN ch ELSE [ch EXCEPT !.log = Append(@, v)]

\* a receiver that starts at the first value ever sent
SubscribeCursorReplaying(ch) == 0

\* Sender::subscribe: the new receiver starts at the tail
SubscribeCursor(ch) == Len(ch.log)

AddReceiver(ch) == [ch EXCEPT !.rx_cnt = @ + 1]

DropReceiver(ch) == [ch EXCEPT !.rx_cnt = @ - 1]

\* a channel that retains one value less than its capacity
OldestOffByOne(ch, cap) ==
    IF Len(ch.log) > cap - 1 THEN Len(ch.log) - (cap - 1) ELSE 0

\* position of the oldest value the channel still retains
Oldest(ch, cap) == IF Len(ch.log) > cap THEN Len(ch.log) - cap ELSE 0

\* Receiver::recv at cursor `next`: a value is ready, or the receiver waits
RecvReady(ch, next) == next < Len(ch.log)

RecvLagged(ch, cap, next) == next < Oldest(ch, cap)

\* what recv returns: Err(Lagged(missed)) or Ok(value)
RecvItem(ch, cap, next) ==
    IF RecvLagged(ch, cap, next)
    THEN [kind |-> "lagged", missed |-> Oldest(ch, cap) - next]
    ELSE ch.log[next + 1]

\* the cursor after recv: the oldest retained value after a lag
RecvNext(ch, cap, next) ==
    IF RecvLagged(ch, cap, next) THEN Oldest(ch, cap) ELSE next + 1

(***************************************************************************)
(* SensorHubService                                                        *)
(***************************************************************************)
HubChans == {"imu", "mag", "baro", "all"}

\* SensorHubService::new: the four capacities (1000, 800, 800, 2000), scaled
Capacity(c) == IF c = "all" THEN 2 * HubCap ELSE HubCap

\* a publish that sends every message to the magnetometer stream
KindChannelMag(message) == "mag"

\* the type-specific sender publish picks for a message
KindChannel(message) == message.kind

\* SensorStats::default
DefaultStats == [is_active |-> FALSE, is_healthy |-> TRUE, frequency_hz |-> 0,
                 messages_sent |-> 0, last_message_time_ns |-> 0,
                 error_message |-> None]

\* an update that stores the count of the call instead of adding it
UpdateStatsOverwriting(stats, sensor_id, message_count, now) ==
    [id \in DOMAIN stats \cup {sensor_id} |->
        IF id = sensor_id
        THEN [DefaultStats EXCEPT !.is_active = TRUE,
                                  !.messages_sent = message_count,
                                  !.last_message_time_ns = now]
        ELSE stats[id]]

\* update_sensor_stats
UpdateStats(stats, sensor_id, message_count, now) ==
    LET entry == IF sensor_id \in DOMAIN stats THEN stats[sensor_id]
                 ELSE DefaultStats
        new == [entry EXCEPT !.is_active = TRUE,
                             !.messages_sent = @ + message_count,
                             !.last_message_time_ns = now]
    IN [id \in DOMAIN stats \cup {sensor_id} |->
            IF id = sensor_id THEN new ELSE stats[id]]

\* a bounded queue: the sender waits while a receiver is `cap` behind
CanSendBounded(ch, cap, cursors) == \A n \in cursors : Len(ch.log) - n < cap

\* a status answer that lists every configured register sensor
get_sensor_status_of_config(stats) ==
    {[sensor_id |-> id, is_active |-> FALSE, is_healthy |-> TRUE,
      frequency_hz |-> 0, messages_sent |-> 0, last_message_time_ns |-> 0,
      error_message |-> None] : id \in PolledIds}

\* get_sensor_status: one SensorStatus per entry of the map
get_sensor_status(stats) ==
    {[sensor_id |-> id, is_active |-> stats[id].is_active,
      is_healthy |-> stats[id].is_healthy,
      frequency_hz |-> stats[id].frequency_hz,
      messages_sent |-> stats[id].messages_sent,
      last_message_time_ns |-> stats[id].last_message_time_ns,
      error_message |-> stats[id].error_message] : id \in DOMAIN stats}

\* a broadcast send never waits for a receiver
CanSend(ch, cap, cursors) == TRUE

\* what publish returns on every path: Ok(())
PublishResult(message) == "Ok"

\* gRPC clients of the modelled deployment
Subs == {"c1", "c2"}

(***************************************************************************)
(* State.                                                                  *)
(***************************************************************************)
VARIABLES
    phase,            \* "init" while init_all runs, then "running"
    wall_ns,          \* SystemTime::now()
    elapsed_ns,       \* what the next Instant::elapsed() of Header::new reads
    busOwner,         \* bus id -> the task holding its Mutex, or "free"
    pc,               \* task id -> position of the task
    sequence_counter, \* task id -> its u64 counter
    outbox,           \* task id -> derived messages not yet published
    publish_result,   \* task id -> what its last publish call returned
    published,        \* task id -> the headers it has passed to publish
    last_read,        \* task id -> outcome of its last sensor.read
    hub_tx,           \* hub channel -> broadcast channel
    sensor_stats,     \* the hub's HashMap<String, SensorStats>
    sub,              \* client -> its response stream
    mavPc,            \* position of the MAVLink receive loop
    mavMsg,           \* the message the receive loop holds
    wireRead,         \* number of frames read from the serial stream
    detected_sensors, \* the connection's HashSet<DetectedSensor>
    mav_tx,           \* the connection's broadcast channel
    mavNext,          \* MAVLink sensor id -> cursor of its receiver
    frame_in,         \* a SensorDataFrame handed to the derivation
    derived,          \* the messages derived from frame_in, and by which path
    reg,              \* init_all: its position, locals and result
    ingested,         \* wire kind -> number of frames of it read so far
    proc,             \* the process: entry point, RPC server, exit status
    det,              \* detect_all_flight_controllers: the probes of one run
    hdr,              \* a header on its way: built, on the wire, read back
    spawn,            \* spawn_sensor_tasks: the tasks of the MAVLink sensors
    drv               \* a driver's init: its bus transactions and its result

vars == << phase, wall_ns, elapsed_ns, busOwner, pc, sequence_counter, outbox,
           publish_result, published, last_read, hub_tx, sensor_stats, sub,
           mavPc, mavMsg, wireRead, detected_sensors, mav_tx, mavNext,
           frame_in, derived, reg, ingested, proc, det, hdr, spawn, drv >>

clockVars == << wall_ns, elapsed_ns >>
pureVars == << frame_in, derived >>
auxVars == << proc, det, hdr, spawn, drv >>
hubVars == << hub_tx, sensor_stats >>
mavVars == << mavPc, mavMsg, wireRead, detected_sensors, mav_tx, ingested >>

\* a response stream nobody has opened
NoSub == [state |-> "idle", chan |-> "none", since |-> 0, next |-> 0,
          got |-> << >>]

\* init_all at its start: the buses of buses.toml and the local sensors of
\* sensors.toml are still to be initialised, in the files' order
RegStart(buses, sensors) ==
    [pc |-> "buses", buses |-> buses, i2c_bus_map |-> {},
     backoff_ms |-> InitialBackoffMs, waits |-> << >>,
     todo |-> sensors, sensors |-> {}, error |-> "none"]

\* init_all once every bus is open and the local sensors `polled` are
\* initialised: what is left is the discovery on the serial buses
RegAtGrace(polled) ==
    [RegStart(<< >>, << >>) EXCEPT !.pc = "grace", !.i2c_bus_map = I2cBuses,
                                   !.sensors = polled]

\* the state once main has built the hub, with init_all at `registry`:
\* `polled` are the register sensors initialised so far, `serial` says
\* whether a serial bus is open, `frames` are the frames the derivation may
\* be handed
CoreInit(ph, polled, serial, frames, registry) ==
    /\ phase = ph
    /\ reg = registry
    /\ wall_ns = 0
    /\ elapsed_ns = 0
    /\ busOwner = [b \in I2cBuses |-> "free"]
    /\ pc = [s \in SensorIds |-> IF s \in polled THEN "idle" ELSE "absent"]
    /\ sequence_counter = [s \in SensorIds |-> 0]
    /\ outbox = [s \in SensorIds |-> << >>]
    /\ publish_result = [s \in SensorIds |-> "none"]
    /\ published = [s \in SensorIds |-> << >>]
    /\ last_read = [s \in SensorIds |-> "none"]
    /\ hub_tx = [c \in HubChans |-> NewChannel]
    /\ sensor_stats = << >>
    /\ sub = [r \in Subs |-> NoSub]
    /\ mavPc = IF serial THEN "read" ELSE "none"
    /\ mavMsg = "none"
    /\ wireRead = 0
    /\ detected_sensors = {}
    /\ mav_tx = NewChannel
    /\ ingested = [wire \in WireKinds |-> 0]
    /\ mavNext = [s \in MavIds |-> 0]
    /\ frame_in \in frames
    /\ derived = [path |-> "none", messages |-> << >>]

\* the process of src/src/main.rs before its server starts
ProcStart(entry) == [entry |-> entry, server |-> "off", exit |-> None]

\* no detection is running
DetIdle == [pc |-> "idle"]
DrvIdle == [pc |-> "idle"]

\* no header is under way
HdrIdle == [stage |-> "idle"]

\* no MAVLink sensor has been handed to spawn_sensor_tasks; the serial bus
\* has the id `serial_id` in buses.toml
SpawnStart(serial_id) ==
    [serial_id |-> serial_id, task |-> [s \in MavIds |-> "none"]]

\* the deployment of the shipped configuration, started by src/src/main.rs
HubInit(ph, polled, serial, frames, registry) ==
    /\ CoreInit(ph, polled, serial, frames, registry)
    /\ proc = ProcStart("main")
    /\ det = DetIdle
    /\ hdr = HdrIdle
    /\ spawn = SpawnStart("serial0")
    /\ drv = DrvIdle

\* the state once init_all has opened the buses and initialised `polled`
InitCfg(polled, serial, frames) ==
    HubInit("init", polled, serial, frames, RegAtGrace(polled))

(***************************************************************************)
(* Polled sensor task: the loop of spawn_sensor_tasks.                     *)
(***************************************************************************)
\* a counter that skips a value
NextSeqSkipping(counter) == counter + 2

\* sequence_counter += 1
NextSeq(counter) == counter + 1

\* where a task waits between two frames
Home(s) == IF s \in PolledIds THEN "idle" ELSE "recv"

\* `for msg in messages`: publish the first, or go back to waiting
AfterDerive(s, messages) == IF messages = << >> THEN Home(s) ELSE "send_kind"

\* a task that takes the lock of the other register bus together with its own
LockBoth(s) ==
    /\ phase = "running"
    /\ s \in PolledIds
    /\ pc[s] = "idle"
    /\ \A b \in I2cBuses : busOwner[b] = "free"
    /\ busOwner' = [b \in I2cBuses |-> s]
    /\ pc' = [pc EXCEPT ![s] = "read"]
    /\ UNCHANGED << auxVars, phase, reg, clockVars, pureVars, hubVars, mavVars,
                    mavNext, sequence_counter, outbox, publish_result,
                    published, last_read, sub >>

\* a lock that is handed out while another task holds it
LockWithoutWaiting(s) ==
    /\ phase = "running"
    /\ s \in PolledIds
    /\ pc[s] = "idle"
    /\ busOwner' = [busOwner EXCEPT ![BusOf(s)] = s]
    /\ pc' = [pc EXCEPT ![s] = "read"]
    /\ UNCHANGED << auxVars, phase, reg, clockVars, pureVars, hubVars, mavVars,
                    mavNext, sequence_counter, outbox, publish_result,
                    published, last_read, sub >>

\* bus.lock().await
Lock(s) ==
    /\ phase = "running"
    /\ s \in PolledIds
    /\ pc[s] = "idle"
    /\ busOwner[BusOf(s)] = "free"
    /\ busOwner' = [busOwner EXCEPT ![BusOf(s)] = s]
    /\ pc' = [pc EXCEPT ![s] = "read"]
    /\ UNCHANGED << auxVars, phase, reg, clockVars, pureVars, hubVars, mavVars, mavNext,
                    sequence_counter, outbox, publish_result, published,
                    last_read, sub >>

\* a successful read whose guard lives on into the publish
ReadOkHolding(s) ==
    /\ s \in PolledIds
    /\ pc[s] = "read"
    /\ sequence_counter[s] < MaxSeq
    /\ LET seq == NextSeq(sequence_counter[s])
           header == HeaderNew("navigate_hub", s, "sensor_frame", seq,
                               wall_ns, elapsed_ns)
           messages == SchedulerMessages(DriverFrame(PolledDriver[s]), header)
       IN /\ sequence_counter' = [sequence_counter EXCEPT ![s] = seq]
          /\ outbox' = [outbox EXCEPT ![s] = messages]
          /\ pc' = [pc EXCEPT ![s] = AfterDerive(s, messages)]
    /\ UNCHANGED busOwner
    /\ last_read' = [last_read EXCEPT ![s] = "Ok"]
    /\ UNCHANGED << auxVars, phase, reg, clockVars, pureVars, hubVars, mavVars, mavNext,
                    publish_result, published, sub >>

\* sensor.read returned Ok(frame): count, stamp, derive; the lock is dropped
ReadOk(s) ==
    /\ s \in PolledIds
    /\ pc[s] = "read"
    /\ sequence_counter[s] < MaxSeq
    /\ LET seq == NextSeq(sequence_counter[s])
           header == HeaderNew("navigate_hub", s, "sensor_frame", seq,
                               wall_ns, elapsed_ns)
           messages == SchedulerMessages(DriverFrame(PolledDriver[s]), header)
       IN /\ sequence_counter' = [sequence_counter EXCEPT ![s] = seq]
          /\ outbox' = [outbox EXCEPT ![s] = messages]
          /\ pc' = [pc EXCEPT ![s] = AfterDerive(s, messages)]
    /\ busOwner' = [busOwner EXCEPT ![BusOf(s)] = "free"]
    /\ last_read' = [last_read EXCEPT ![s] = "Ok"]
    /\ UNCHANGED << auxVars, phase, reg, clockVars, pureVars, hubVars, mavVars, mavNext,
                    publish_result, published, sub >>

\* a failed read that keeps the bus guard over the sleep
ReadErrHolding(s) ==
    /\ s \in PolledIds
    /\ pc[s] = "read"
    /\ last_read' = [last_read EXCEPT ![s] = "Err"]
    /\ pc' = [pc EXCEPT ![s] = "idle"]
    /\ UNCHANGED << auxVars, phase, reg, clockVars, pureVars, hubVars, mavVars, mavNext,
                    busOwner, sequence_counter, outbox, publish_result,
                    published, sub >>

\* sensor.read returned Err: warn and sleep, the counter is not touched
ReadErr(s) ==
    /\ s \in PolledIds
    /\ pc[s] = "read"
    /\ busOwner' = [busOwner EXCEPT ![BusOf(s)] = "free"]
    /\ last_read' = [last_read EXCEPT ![s] = "Err"]
    /\ pc' = [pc EXCEPT ![s] = "idle"]
    /\ UNCHANGED << auxVars, phase, reg, clockVars, pureVars, hubVars, mavVars, mavNext,
                    sequence_counter, outbox, publish_result, published, sub >>

(***************************************************************************)
(* SensorHubService::publish, one step per send and one for the stats      *)
(* update (the write lock is an await point).                              *)
(***************************************************************************)
\* cursors of the open response streams of a hub channel
Cursors(c) == {sub[r].next : r \in {q \in Subs : sub[q].state = "open"
                                                 /\ sub[q].chan = c}}

\* the send on the type-specific channel
SendKind(s) ==
    /\ pc[s] = "send_kind"
    /\ LET message == Head(outbox[s])
           c == KindChannel(message)
       IN /\ CanSend(hub_tx[c], Capacity(c), Cursors(c))
          /\ hub_tx' = [hub_tx EXCEPT ![c] = Send(@, ToProto(message))]
          /\ published' = [published EXCEPT ![s] = Append(@, message.h)]
    /\ pc' = [pc EXCEPT ![s] = "send_all"]
    /\ UNCHANGED << auxVars, phase, reg, clockVars, pureVars, mavVars, mavNext, busOwner,
                    sequence_counter, outbox, publish_result, last_read,
                    sensor_stats, sub >>

\* the send of the envelope on the unified channel
SendAll(s) ==
    /\ pc[s] = "send_all"
    /\ CanSend(hub_tx["all"], Capacity("all"), Cursors("all"))
    /\ hub_tx' = [hub_tx EXCEPT
                    !["all"] = Send(@, Envelope(ToProto(Head(outbox[s]))))]
    /\ pc' = [pc EXCEPT ![s] = "stats"]
    /\ UNCHANGED << auxVars, phase, reg, clockVars, pureVars, mavVars, mavNext, busOwner,
                    sequence_counter, outbox, publish_result, published,
                    last_read, sensor_stats, sub >>

\* update_sensor_stats, then publish returns and the caller's loop goes on
StatsUpdate(s) ==
    /\ pc[s] = "stats"
    /\ LET message == Head(outbox[s])
       IN /\ sensor_stats' = UpdateStats(sensor_stats, message.h.sensor_id, 1,
                                         wall_ns)
          /\ publish_result' = [publish_result EXCEPT
                                  ![s] = PublishResult(message)]
    /\ outbox' = [outbox EXCEPT ![s] = Tail(@)]
    /\ pc' = [pc EXCEPT ![s] = AfterDerive(s, Tail(outbox[s]))]
    /\ UNCHANGED << auxVars, phase, reg, clockVars, pureVars, mavVars, mavNext, busOwner,
                    sequence_counter, published, last_read, hub_tx, sub >>

(***************************************************************************)
(* The streaming RPCs and their response streams.                          *)
(***************************************************************************)
\* BroadcastStream + map_err: Err(Lagged(n)) becomes Err(Status::internal)
StreamItem(item) ==
    IF item.kind = "lagged"
    THEN [kind |-> "status", code |-> "internal", missed |-> item.missed]
    ELSE item

\* a server stream that yields Err(Status) is finished by the transport:
\* the status goes out as the trailers and the stream is dropped
EndsStream(item) == item.kind = "status"

\* stream_imu / stream_magnetometer / stream_barometer / stream_all
Subscribe(r, c) ==
    /\ phase = "running"
    /\ sub[r].state = "idle"
    /\ sub' = [sub EXCEPT ![r] = [state |-> "open", chan |-> c,
                                  since |-> Len(hub_tx[c].log),
                                  next |-> SubscribeCursor(hub_tx[c]),
                                  got |-> << >>]]
    /\ hub_tx' = [hub_tx EXCEPT ![c] = AddReceiver(@)]
    /\ UNCHANGED << auxVars, phase, reg, clockVars, pureVars, mavVars, mavNext, busOwner,
                    pc, sequence_counter, outbox, publish_result, published,
                    last_read, sensor_stats >>

\* the transport polls the response stream once
StreamRecv(r) ==
    /\ sub[r].state = "open"
    /\ RecvReady(hub_tx[sub[r].chan], sub[r].next)
    /\ LET c == sub[r].chan
           item == StreamItem(RecvItem(hub_tx[c], Capacity(c), sub[r].next))
       IN /\ sub' = [sub EXCEPT
                       ![r].got = Append(@, item),
                       ![r].next = RecvNext(hub_tx[c], Capacity(c), @),
                       ![r].state = IF EndsStream(item) THEN "ended" ELSE @]
          /\ hub_tx' = IF EndsStream(item)
                       THEN [hub_tx EXCEPT ![c] = DropReceiver(@)]
                       ELSE hub_tx
    /\ UNCHANGED << auxVars, phase, reg, clockVars, pureVars, mavVars, mavNext, busOwner,
                    pc, sequence_counter, outbox, publish_result, published,
                    last_read, sensor_stats >>

\* the client goes away: the response stream and its receiver are dropped
Disconnect(r) ==
    /\ sub[r].state = "open"
    /\ sub' = [sub EXCEPT ![r].state = "closed"]
    /\ hub_tx' = [hub_tx EXCEPT ![sub[r].chan] = DropReceiver(@)]
    /\ UNCHANGED << auxVars, phase, reg, clockVars, pureVars, mavVars, mavNext, busOwner,
                    pc, sequence_counter, outbox, publish_result, published,
                    last_read, sensor_stats >>

(***************************************************************************)
(* MavlinkConnection: the receive loop spawned by MavlinkConnection::new.  *)
(***************************************************************************)
\* the `sensor_type` match of the receive loop
Classify(wire) ==
    CASE wire = "SCALED_IMU"          -> Some("ScaledImu")
      [] wire = "SCALED_IMU2"         -> Some("ScaledImu2")
      [] wire = "SCALED_IMU3"         -> Some("ScaledImu3")
      [] wire = "SCALED_PRESSURE"     -> Some("ScaledPressure")
      [] wire = "ATTITUDE_QUATERNION" -> Some("AttitudeQuaternion")
      [] wire = "HIGHRES_IMU"         -> Some("HighresImu")
      [] OTHER                        -> None

\* read_versioned_msg_async returned Ok((header, msg))
MavRead(wire) ==
    /\ mavPc = "read"
    /\ wireRead < MaxWire
    /\ wireRead' = wireRead + 1
    /\ mavMsg' = wire
    /\ ingested' = [ingested EXCEPT ![wire] = @ + 1]
    /\ mavPc' = IF Classify(wire) # None THEN "detect" ELSE "send"
    /\ UNCHANGED << auxVars, phase, reg, clockVars, pureVars, hubVars, busOwner, pc,
                    sequence_counter, outbox, publish_result, published,
                    last_read, sub, detected_sensors, mav_tx, mavNext >>

\* it returned an I/O error: sleep 100 ms, then `continue`
MavReadError ==
    /\ mavPc = "read"
    /\ mavPc' = "sleep"
    /\ UNCHANGED << auxVars, phase, reg, clockVars, pureVars, hubVars, busOwner, pc,
                    sequence_counter, outbox, publish_result, published,
                    last_read, sub, mavMsg, wireRead, detected_sensors,
                    mav_tx, mavNext, ingested >>

MavWake ==
    /\ mavPc = "sleep"
    /\ mavPc' = "read"
    /\ UNCHANGED << auxVars, phase, reg, clockVars, pureVars, hubVars, busOwner, pc,
                    sequence_counter, outbox, publish_result, published,
                    last_read, sub, mavMsg, wireRead, detected_sensors,
                    mav_tx, mavNext, ingested >>

\* a parse error that ends the task
MavParseErrorEnding ==
    /\ mavPc = "read"
    /\ mavPc' = "ended"
    /\ UNCHANGED << auxVars, phase, reg, clockVars, pureVars, hubVars, busOwner, pc,
                    sequence_counter, outbox, publish_result, published,
                    last_read, sub, mavMsg, wireRead, detected_sensors,
                    mav_tx, mavNext, ingested >>

\* it returned a parse error: a warning, and on to the end of the iteration
MavParseError ==
    /\ mavPc = "read"
    /\ mavPc' = "skip"
    /\ UNCHANGED << auxVars, phase, reg, clockVars, pureVars, hubVars, busOwner, pc,
                    sequence_counter, outbox, publish_result, published,
                    last_read, sub, mavMsg, wireRead, detected_sensors,
                    mav_tx, mavNext, ingested >>

\* yield_now() at the end of an iteration, after the send or after the
\* skipped frame; then the next read
MavYield ==
    /\ mavPc \in {"yield", "skip"}
    /\ mavPc' = "read"
    /\ UNCHANGED << auxVars, phase, reg, clockVars, pureVars, hubVars, busOwner, pc,
                    sequence_counter, outbox, publish_result, published,
                    last_read, sub, mavMsg, wireRead, detected_sensors,
                    mav_tx, mavNext, ingested >>

\* an insert that forgets what the set held
InsertForgetting(set, x) == {x}

\* HashSet::insert
Insert(set, x) == set \cup {x}

\* get_detected_sensors: the members of the set at the time of the call
get_detected_sensors(detected) == detected

\* a detection that also starts the sensor of a kind seen for the first time
MavDetectSpawning ==
    /\ mavPc = "detect"
    /\ detected_sensors' = Insert(detected_sensors, Unwrap(Classify(mavMsg)))
    /\ mavPc' = "send"
    /\ pc' = [pc EXCEPT ![MavSensorId(Unwrap(Classify(mavMsg)))] =
                  IF @ = "absent" THEN "recv" ELSE @]
    /\ UNCHANGED << auxVars, phase, reg, clockVars, pureVars, hubVars, busOwner,
                    sequence_counter, outbox, publish_result, published,
                    last_read, sub, mavMsg, wireRead, mav_tx, mavNext,
                    ingested >>

\* detected.insert(sensor) under the lock
MavDetect ==
    /\ mavPc = "detect"
    /\ detected_sensors' = Insert(detected_sensors, Unwrap(Classify(mavMsg)))
    /\ mavPc' = "send"
    /\ UNCHANGED << auxVars, phase, reg, clockVars, pureVars, hubVars, busOwner, pc,
                    sequence_counter, outbox, publish_result, published,
                    last_read, sub, mavMsg, wireRead, mav_tx, mavNext,
                    ingested >>

\* cursors of the MAVLink sensors' receivers
MavCursors == {mavNext[s] : s \in {q \in MavIds : pc[q] \notin {"absent", "ended"}}}

\* a loop that sends only the messages of a recognised sensor kind
MavSendRecognisedOnly ==
    /\ mavPc = "send"
    /\ mav_tx' = IF Classify(mavMsg) # None THEN Send(mav_tx, mavMsg) ELSE mav_tx
    /\ mavPc' = "yield"
    /\ UNCHANGED << auxVars, phase, reg, clockVars, pureVars, hubVars, busOwner, pc,
                    sequence_counter, outbox, publish_result, published,
                    last_read, sub, mavMsg, wireRead, detected_sensors,
                    mavNext, ingested >>

\* tx_clone.send(msg), then on to the end of the iteration
MavSend ==
    /\ mavPc = "send"
    /\ CanSend(mav_tx, MavCap, MavCursors)
    /\ mav_tx' = Send(mav_tx, mavMsg)
    /\ mavPc' = "yield"
    /\ UNCHANGED << auxVars, phase, reg, clockVars, pureVars, hubVars, busOwner, pc,
                    sequence_counter, outbox, publish_result, published,
                    last_read, sub, mavMsg, wireRead, detected_sensors,
                    mavNext, ingested >>

(***************************************************************************)
(* init_all: the buses of buses.toml, then the local sensors of            *)
(* sensors.toml.  Every `?` of the function is a return of Err, on which   *)
(* main's `expect` panics.                                                 *)
(***************************************************************************)
\* what init_all does not touch before the discovery
regFrame == << clockVars, pureVars, hubVars, busOwner, sequence_counter,
               outbox, publish_result, published, last_read, sub, mavMsg,
               wireRead, detected_sensors, mav_tx, ingested, mavNext >>

\* u64::min
Min(a, b) == IF a < b THEN a ELSE b

\* a backoff that stays at its first value
NextBackoffConstant(backoff_ms) == backoff_ms

\* backoff_ms = (backoff_ms * 2).min(MAX_BACKOFF_MS)
NextBackoff(backoff_ms) == Min(backoff_ms * 2, MAX_BACKOFF_MS)

\* the position after a bus is dealt with: the next bus, or the sensors
AfterBus(rest) == IF rest = << >> THEN "sensors" ELSE "buses"

\* init_all returns Err(error) and main panics on it
Abort(error) ==
    /\ reg' = [reg EXCEPT !.pc = "failed", !.error = error]
    /\ phase' = "aborted"

\* I2CBus::new returned Ok: the bus enters the map
OpenI2cOk ==
    /\ reg.pc = "buses"
    /\ Head(reg.buses) \in I2cBuses
    /\ reg' = [reg EXCEPT !.i2c_bus_map = @ \cup {Head(reg.buses)},
                          !.buses = Tail(@),
                          !.pc = AfterBus(Tail(reg.buses))]
    /\ UNCHANGED << auxVars, phase, pc, mavPc, regFrame >>

\* I2CBus::new returned Err: a warning, and on to the next bus
OpenI2cErr ==
    /\ reg.pc = "buses"
    /\ Head(reg.buses) \in I2cBuses
    /\ reg' = [reg EXCEPT !.buses = Tail(@),
                          !.pc = AfterBus(Tail(reg.buses))]
    /\ UNCHANGED << auxVars, phase, pc, mavPc, regFrame >>

\* path "auto": detect_flight_controller returned Err; sleep backoff_ms,
\* double it up to the cap, and try again
DetectErr ==
    /\ reg.pc = "buses"
    /\ Head(reg.buses) \in SerialBuses
    /\ Len(reg.waits) < MaxAttempts
    /\ reg' = [reg EXCEPT !.waits = Append(@, reg.backoff_ms),
                          !.backoff_ms = NextBackoff(@)]
    /\ UNCHANGED << auxVars, phase, pc, mavPc, regFrame >>

\* detect_flight_controller returned Ok(path): `break path`, which ends the
\* scope of backoff_ms
DetectOk ==
    /\ reg.pc = "buses"
    /\ Head(reg.buses) \in SerialBuses
    /\ reg' = [reg EXCEPT !.pc = "open_serial",
                          !.backoff_ms = InitialBackoffMs, !.waits = << >>]
    /\ UNCHANGED << auxVars, phase, pc, mavPc, regFrame >>

\* SerialBus::new(&detected_path) returned Ok: MavlinkConnection::new
\* spawns the receive loop
OpenSerialOk ==
    /\ reg.pc = "open_serial"
    /\ reg' = [reg EXCEPT !.buses = Tail(@),
                          !.pc = AfterBus(Tail(reg.buses))]
    /\ mavPc' = "read"
    /\ UNCHANGED << auxVars, phase, pc, regFrame >>

\* SerialBus::new(&detected_path) returned Err: `?`
OpenSerialErr ==
    /\ reg.pc = "open_serial"
    /\ Abort("SerialError")
    /\ UNCHANGED << auxVars, pc, mavPc, regFrame >>

\* a local sensor whose bus is in the map and whose init returned Ok
InitSensorOk ==
    /\ reg.pc = "sensors"
    /\ reg.todo # << >>
    /\ BusOf(Head(reg.todo)) \in reg.i2c_bus_map
    /\ reg' = [reg EXCEPT !.sensors = @ \cup {Head(reg.todo)},
                          !.todo = Tail(@)]
    /\ pc' = [pc EXCEPT ![Head(reg.todo)] = "idle"]
    /\ UNCHANGED << auxVars, phase, mavPc, regFrame >>

\* sensor.init returned Err (wrong chip id, transport error): `?`
InitSensorErr ==
    /\ reg.pc = "sensors"
    /\ reg.todo # << >>
    /\ BusOf(Head(reg.todo)) \in reg.i2c_bus_map
    /\ Abort("RegistrationError")
    /\ UNCHANGED << auxVars, pc, mavPc, regFrame >>

\* i2c_bus_map.get(&s.bus) is None: ok_or_else(BusNotFound) and `?`
SensorBusMissing ==
    /\ reg.pc = "sensors"
    /\ reg.todo # << >>
    /\ BusOf(Head(reg.todo)) \notin reg.i2c_bus_map
    /\ Abort("BusNotFound")
    /\ UNCHANGED << auxVars, pc, mavPc, regFrame >>

\* every local sensor is initialised: on to the discovery
LocalInitDone ==
    /\ reg.pc = "sensors"
    /\ reg.todo = << >>
    /\ reg' = [reg EXCEPT !.pc = "grace"]
    /\ phase' = "init"
    /\ UNCHANGED << auxVars, pc, mavPc, regFrame >>

(***************************************************************************)
(* init_all: the end of the grace period.  The detected set is read once   *)
(* and one MavlinkSensor is created, and subscribed, per kind in it.       *)
(***************************************************************************)
\* the bus ids buses.toml may give the serial bus: the shipped one, one
\* without the prefix, and one that a register bus has too
SerialIdChoices == {"serial0", "fc", "i2c0"}

\* bus_id.starts_with("serial"), on the bus ids of the model
is_mavlink(bus_id) == bus_id \in {"serial0"}

\* what spawn_sensor_tasks makes of a sensor whose bus() is bus_id, given
\* the register buses init_all returned: a task that returns at once, no
\* task ("No I2C bus available"), or a polling task
SpawnedAs(bus_id, buses) ==
    IF is_mavlink(bus_id) THEN "exited"
    ELSE IF bus_id \notin buses THEN "skipped"
    ELSE "idle"

\* the end of the grace period, and with init_all returned, the spawning of
\* the tasks by spawn_sensor_tasks
RegistryDiscover ==
    /\ phase = "init"
    /\ phase' = "running"
    /\ LET created == {MavSensorId(d) :
                           d \in get_detected_sensors(detected_sensors)}
       IN /\ pc' = [s \in SensorIds |->
                       IF s \in created THEN "recv" ELSE pc[s]]
          /\ spawn' = [spawn EXCEPT
                         !.task = [s \in MavIds |->
                                     IF s \in created
                                     THEN SpawnedAs(spawn.serial_id,
                                                    reg.i2c_bus_map)
                                     ELSE spawn.task[s]]]
          /\ mavNext' = [s \in MavIds |->
                           IF s \in created THEN SubscribeCursor(mav_tx)
                           ELSE mavNext[s]]
          /\ mav_tx' = [mav_tx EXCEPT !.rx_cnt = @ + Cardinality(created)]
    /\ UNCHANGED << drv, proc, det, hdr, clockVars, pureVars, hubVars, busOwner,
                    sequence_counter, outbox, publish_result, published,
                    last_read, sub, mavPc, mavMsg, wireRead, detected_sensors,
                    reg, ingested >>

\* the polling task of a MAVLink sensor takes the lock of the register bus
\* that has the id of its serial bus
PushLock(s) ==
    /\ phase = "running"
    /\ s \in MavIds
    /\ spawn.task[s] = "idle"
    /\ busOwner[spawn.serial_id] = "free"
    /\ busOwner' = [busOwner EXCEPT ![spawn.serial_id] = s]
    /\ spawn' = [spawn EXCEPT !.task[s] = "read"]
    /\ UNCHANGED << drv, proc, det, hdr, phase, reg, clockVars, pureVars, hubVars,
                    mavVars, mavNext, pc, sequence_counter, outbox,
                    publish_result, published, last_read, sub >>

\* MavlinkSensor::read returns Err(ReadError): the lock is dropped, a
\* warning is logged, the task sleeps
PushRead(s) ==
    /\ s \in MavIds
    /\ spawn.task[s] = "read"
    /\ busOwner' = [busOwner EXCEPT ![spawn.serial_id] = "free"]
    /\ spawn' = [spawn EXCEPT !.task[s] = "idle"]
    /\ last_read' = [last_read EXCEPT ![s] = "Err"]
    /\ UNCHANGED << drv, proc, det, hdr, phase, reg, clockVars, pureVars, hubVars,
                    mavVars, mavNext, pc, sequence_counter, outbox,
                    publish_result, published, sub >>

(***************************************************************************)
(* MavlinkSensor: the message loop of start_message_loop.                  *)
(***************************************************************************)
\* the DetectedSensor a MAVLink sensor id was created for
KindOfId(s) == CHOOSE d \in DetectedKinds : MavSensorId(d) = s

\* rx.recv() returned Ok(msg): match, count, stamp, derive
MavSensorRecv(s) ==
    /\ s \in MavIds
    /\ pc[s] = "recv"
    /\ RecvReady(mav_tx, mavNext[s])
    /\ ~RecvLagged(mav_tx, MavCap, mavNext[s])
    /\ mavNext' = [mavNext EXCEPT ![s] = RecvNext(mav_tx, MavCap, @)]
    /\ LET msg == RecvItem(mav_tx, MavCap, mavNext[s])
       IN IF Matches(MavSensorType(KindOfId(s)), msg)
          THEN /\ sequence_counter[s] < MaxSeq
               /\ LET seq == NextSeq(sequence_counter[s])
                      header == HeaderNew("navigate_hub", s, "sensor_frame",
                                          seq, wall_ns, elapsed_ns)
                      messages == frame_to_grpc_messages(ConvertToFrame(msg),
                                                         header)
                  IN /\ sequence_counter' = [sequence_counter EXCEPT ![s] = seq]
                     /\ outbox' = [outbox EXCEPT ![s] = messages]
                     /\ pc' = [pc EXCEPT ![s] = AfterDerive(s, messages)]
          ELSE UNCHANGED << auxVars, sequence_counter, outbox, pc >>
    /\ UNCHANGED << auxVars, phase, reg, clockVars, pureVars, hubVars, busOwner,
                    publish_result, published, last_read, sub, mavVars >>

\* rx.recv() returned Err(Lagged): `while let Ok(..)` ends the loop and the
\* receiver is dropped with the task
MavSensorLagged(s) ==
    /\ s \in MavIds
    /\ pc[s] = "recv"
    /\ RecvLagged(mav_tx, MavCap, mavNext[s])
    /\ pc' = [pc EXCEPT ![s] = "ended"]
    /\ mav_tx' = DropReceiver(mav_tx)
    /\ UNCHANGED << auxVars, phase, reg, clockVars, pureVars, hubVars, busOwner,
                    sequence_counter, outbox, publish_result, published,
                    last_read, sub, mavPc, mavMsg, wireRead, detected_sensors,
                    mavNext, ingested >>

(***************************************************************************)
(* The clocks read by Header::new and update_sensor_stats.                 *)
(***************************************************************************)
\* time passes: the wall clock advances; the next Instant::now().elapsed()
\* of Header::new reads any small value
ClockTick ==
    /\ wall_ns < MaxWall
    /\ wall_ns' = wall_ns + 1
    /\ elapsed_ns' \in 0..MaxElapsed
    /\ UNCHANGED << auxVars, phase, reg, pureVars, hubVars, busOwner, pc, sequence_counter,
                    outbox, publish_result, published, last_read, sub,
                    mavVars, mavNext >>

(***************************************************************************)
(* The derivations applied to an arbitrary frame.                          *)
(***************************************************************************)
\* every SensorDataFrame by which of its fields are present
Frames ==
    [accel : {None, Some("accel")}, gyro : {None, Some("gyro")},
     mag : {None, Some("mag")}, temp : {None, Some(25)},
     pressure_static : {None, Some(101325), Some(0)},
     pressure_pitot : {None, Some(90000), Some(-100)},
     quaternion : {None, Some("q")},
     angular_velocity_body : {None, Some("rates")}]

DeriveHeader == HeaderNew("navigate_hub", "imu0", "sensor_frame", 1, 0, 0)

\* the scheduler's derivation (scheduler.rs)
DeriveScheduler ==
    /\ derived.path = "none"
    /\ derived' = [path |-> "scheduler",
                   messages |-> SchedulerMessages(frame_in, DeriveHeader)]
    /\ UNCHANGED << auxVars, phase, reg, clockVars, hubVars, busOwner, pc, sequence_counter,
                    outbox, publish_result, published, last_read, sub,
                    mavVars, mavNext, frame_in >>

\* the push path's derivation (sensors/mavlink.rs)
DeriveMavlink ==
    /\ derived.path = "none"
    /\ derived' = [path |-> "mavlink",
                   messages |-> frame_to_grpc_messages(frame_in, DeriveHeader)]
    /\ UNCHANGED << auxVars, phase, reg, clockVars, hubVars, busOwner, pc, sequence_counter,
                    outbox, publish_result, published, last_read, sub,
                    mavVars, mavNext, frame_in >>

(***************************************************************************)
(* main: the RPC server and the end of the process.  `entry` is the binary *)
(* that was started: "main" is src/src/main.rs, "board" is the board       *)
(* binary, whose main returns what run_sensor_hub returns.                 *)
(***************************************************************************)
\* the exit status of the process once serve(addr).await has returned
\* `outcome`: src/src/main.rs logs an Err and falls off the end of main;
\* run_sensor_hub returns the Err, and a main that returns Err exits with 1
ExitStatus(entry, outcome) ==
    IF entry = "main" THEN 0
    ELSE IF outcome = "Ok" THEN 0 ELSE 1

\* serve(addr) has bound the address and accepts connections
ServerBind ==
    /\ phase = "running"
    /\ proc.server = "off"
    /\ proc' = [proc EXCEPT !.server = "serving"]
    /\ UNCHANGED << phase, reg, clockVars, pureVars, hubVars, mavVars, mavNext,
                    busOwner, pc, sequence_counter, outbox, publish_result,
                    published, last_read, sub, det, hdr, spawn, drv >>

\* serve(addr) could not bind and returned Err
ServerBindErr ==
    /\ phase = "running"
    /\ proc.server = "off"
    /\ proc' = [proc EXCEPT !.server = "bind_failed"]
    /\ UNCHANGED << phase, reg, clockVars, pureVars, hubVars, mavVars, mavNext,
                    busOwner, pc, sequence_counter, outbox, publish_result,
                    published, last_read, sub, det, hdr, spawn, drv >>

\* the serving server terminated with a transport error
ServerError ==
    /\ proc.server = "serving"
    /\ proc' = [proc EXCEPT !.server = "failed"]
    /\ UNCHANGED << phase, reg, clockVars, pureVars, hubVars, mavVars, mavNext,
                    busOwner, pc, sequence_counter, outbox, publish_result,
                    published, last_read, sub, det, hdr, spawn, drv >>

\* the serving server ended without an error
ServerStop ==
    /\ proc.server = "serving"
    /\ proc' = [proc EXCEPT !.server = "stopped"]
    /\ UNCHANGED << phase, reg, clockVars, pureVars, hubVars, mavVars, mavNext,
                    busOwner, pc, sequence_counter, outbox, publish_result,
                    published, last_read, sub, det, hdr, spawn, drv >>

\* main returns, and the runtime ends every task with it
ProcessExit ==
    /\ proc.server \in {"bind_failed", "failed", "stopped"}
    /\ proc.exit = None
    /\ proc' = [proc EXCEPT
                  !.exit = Some(ExitStatus(proc.entry,
                                           IF proc.server = "stopped"
                                           THEN "Ok" ELSE "Err"))]
    /\ UNCHANGED << phase, reg, clockVars, pureVars, hubVars, mavVars, mavNext,
                    busOwner, pc, sequence_counter, outbox, publish_result,
                    published, last_read, sub, det, hdr, spawn, drv >>

(***************************************************************************)
(* A header from its construction to the reader of its wire form.          *)
(***************************************************************************)
\* the arguments Header::new may be called with
HeaderArgs ==
    [device_id : {"navigate_hub", "test_device"}, sensor_id : {"imu0", "fc_baro0"},
     frame_id : {"sensor_frame", "base_link"}, seq : {0, 1, 42}]

\* headers with values in every field, the extremes of the narrow fields
\* included
HeaderValues ==
    [device_id : {"navigate_hub", ""}, sensor_id : {"imu0"},
     frame_id : {"sensor_frame"}, seq : {0, 42},
     t_utc_ns : {0, 7}, t_mono_ns : {0, 3},
     pps_locked : BOOLEAN, ptp_locked : BOOLEAN,
     clock_err_ppb : {-1, 0}, sigma_t_ns : {0, 1000},
     schema_v : {1, 256, 65535}]

\* Header::new(device_id, sensor_id, frame_id, seq)
HeaderBuild ==
    /\ hdr.stage = "args"
    /\ hdr' = [hdr EXCEPT !.stage = "built",
                          !.h = HeaderNew(hdr.args.device_id, hdr.args.sensor_id,
                                          hdr.args.frame_id, hdr.args.seq,
                                          wall_ns, elapsed_ns)]
    /\ UNCHANGED << phase, reg, clockVars, pureVars, hubVars, mavVars, mavNext,
                    busOwner, pc, sequence_counter, outbox, publish_result,
                    published, last_read, sub, proc, det, spawn, drv >>

\* convert_header(&msg.h) in publish
HeaderEncode ==
    /\ hdr.stage = "built"
    /\ hdr' = [hdr EXCEPT !.stage = "wire", !.wire = convert_header(hdr.h)]
    /\ UNCHANGED << phase, reg, clockVars, pureVars, hubVars, mavVars, mavNext,
                    busOwner, pc, sequence_counter, outbox, publish_result,
                    published, last_read, sub, proc, det, spawn, drv >>

\* the reader takes the header off the wire
HeaderDecode ==
    /\ hdr.stage = "wire"
    /\ hdr' = [hdr EXCEPT !.stage = "back",
                          !.back = header_from_proto(hdr.wire)]
    /\ UNCHANGED << phase, reg, clockVars, pureVars, hubVars, mavVars, mavNext,
                    busOwner, pc, sequence_counter, outbox, publish_result,
                    published, last_read, sub, proc, det, spawn, drv >>

(***************************************************************************)
(* Flight-controller detection: bus/serial.rs.  A port name is the         *)
(* sequence of its parts, so that `contains` is a search; a read of the    *)
(* probe is named by what it returned: the autopilot of a HEARTBEAT, any   *)
(* other message, a parse error, or the timeout of the read.               *)
(***************************************************************************)
ProbeWindowMs == 2000
ReadTimeoutMs == 500
\* how long a read that returns before its timeout may take
ReadDurations == {250, ReadTimeoutMs}

PortNames ==
    { << "/dev/ttyACM0" >>, << "/dev/ttyUSB0" >>,
      << "/dev/cu.", "Bluetooth", "-Incoming-Port" >>,
      << "/dev/cu.", "debug-console" >> }

\* what available_ports() may list: up to three ports, none twice
Enumerations ==
    { e \in UNION { [1..n -> PortNames] : n \in 0..3 } :
          \A i, j \in DOMAIN e : i # j => e[i] # e[j] }

\* port_name.contains(part)
contains(port_name, part) == \E i \in DOMAIN port_name : port_name[i] = part

\* the filter of detect_all_flight_controllers
skip(port_name) ==
    contains(port_name, "Bluetooth") \/ contains(port_name, "debug-console")

AcceptedAutopilots ==
    { "MAV_AUTOPILOT_PX4", "MAV_AUTOPILOT_ARDUPILOTMEGA", "MAV_AUTOPILOT_GENERIC",
      "MAV_AUTOPILOT_GENERIC_WAYPOINTS_ONLY",
      "MAV_AUTOPILOT_GENERIC_WAYPOINTS_AND_SIMPLE_NAVIGATION_ONLY" }

\* the autopilot values a HEARTBEAT may carry
Autopilots == AcceptedAutopilots \cup { "MAV_AUTOPILOT_INVALID" }

\* matches!(heartbeat.autopilot, ...)
is_flight_controller(autopilot) == autopilot \in AcceptedAutopilots

\* what one read of a probe may return
ReadOutcomes == Autopilots \cup { "OTHER_MESSAGE", "parse_error", "timeout" }

\* Err(NotFound), and Ok of one port or of a vector of ports
NotFound == [ok |-> FALSE, v |-> << >>]
Found(v) == [ok |-> TRUE, v |-> v]

NoProbe == [pc |-> "none", elapsed |-> 0, last |-> "none", result |-> "none"]

\* detect_all_flight_controllers is entered; available_ports() lists ports
DetStart(ports) ==
    [pc |-> "enumerated", ports |-> ports, candidate_ports |-> << >>,
     probe |-> [p \in PortNames |-> NoProbe], opened |-> {}, joined |-> 0,
     detected_fcs |-> << >>, all |-> NotFound, result |-> NotFound]

detFrame == << phase, reg, clockVars, pureVars, hubVars, mavVars, mavNext,
               busOwner, pc, sequence_counter, outbox, publish_result,
               published, last_read, sub, proc, hdr, spawn, drv >>

\* the result of detect_flight_controller, from that of
\* detect_all_flight_controllers
FirstOf(all) ==
    IF ~all.ok THEN NotFound
    ELSE IF Len(all.v) = 0 THEN NotFound ELSE Found(all.v[1])

\* no port, or no candidate port: Err(NotFound); otherwise one probe task
\* is spawned per candidate port, in the order of the enumeration
DetectSpawn ==
    /\ det.pc = "enumerated"
    /\ LET candidate_ports == SelectSeq(det.ports, LAMBDA p : ~skip(p))
       IN  IF Len(det.ports) = 0 \/ Len(candidate_ports) = 0
           THEN det' = [det EXCEPT !.pc = "returned", !.all = NotFound,
                                   !.result = FirstOf(NotFound)]
           ELSE det' = [det EXCEPT
                    !.pc = "joining",
                    !.candidate_ports = candidate_ports,
                    !.probe = [p \in PortNames |->
                        IF \E i \in DOMAIN candidate_ports :
                               candidate_ports[i] = p
                        THEN [NoProbe EXCEPT !.pc = "spawned"]
                        ELSE NoProbe]]
    /\ UNCHANGED detFrame

\* probe_for_flight_controller: the port opens, the window starts
ProbeOpen(p) ==
    /\ det.probe[p].pc = "spawned"
    /\ det' = [det EXCEPT !.probe[p].pc = "reading",
                          !.opened = @ \cup {p}]
    /\ UNCHANGED detFrame

\* the port does not open: the probe returns Err, its task None
ProbeOpenErr(p) ==
    /\ det.probe[p].pc = "spawned"
    /\ det' = [det EXCEPT !.probe[p].pc = "done",
                          !.probe[p].result = "Err",
                          !.opened = @ \cup {p}]
    /\ UNCHANGED detFrame

\* one pass of the loop: a read of at most ReadTimeoutMs, then the match
ProbeRead(p, outcome, took) ==
    /\ det.probe[p].pc = "reading"
    /\ det.probe[p].elapsed < ProbeWindowMs
    /\ outcome = "timeout" => took = ReadTimeoutMs
    /\ LET after == [det.probe[p] EXCEPT !.elapsed = @ + took,
                                         !.last = outcome]
       IN  det' = [det EXCEPT !.probe[p] =
               IF outcome \in Autopilots
               THEN IF is_flight_controller(outcome)
                    THEN [after EXCEPT !.pc = "done", !.result = "true"]
                    ELSE [after EXCEPT !.pc = "done", !.result = "false"]
               ELSE after]
    /\ UNCHANGED detFrame

\* the window is over: Ok(false)
ProbeWindowEnd(p) ==
    /\ det.probe[p].pc = "reading"
    /\ det.probe[p].elapsed >= ProbeWindowMs
    /\ det' = [det EXCEPT !.probe[p].pc = "done",
                          !.probe[p].result = "false"]
    /\ UNCHANGED detFrame

\* `for task in probe_tasks { task.await }`: the next task in the order of
\* spawning has finished; a port it found is pushed
DetectJoin ==
    /\ det.pc = "joining"
    /\ det.joined < Len(det.candidate_ports)
    /\ LET p == det.candidate_ports[det.joined + 1]
       IN  /\ det.probe[p].pc = "done"
           /\ det' = [det EXCEPT
                  !.joined = @ + 1,
                  !.detected_fcs = IF det.probe[p].result = "true"
                                   THEN Append(@, p) ELSE @]
    /\ UNCHANGED detFrame

\* all tasks are joined: detect_all_flight_controllers returns, and
\* detect_flight_controller takes the first element
DetectReturn ==
    /\ det.pc = "joining"
    /\ det.joined = Len(det.candidate_ports)
    /\ LET all == IF Len(det.detected_fcs) = 0 THEN NotFound
                  ELSE Found(det.detected_fcs)
       IN  det' = [det EXCEPT !.pc = "returned", !.all = all,
                              !.result = FirstOf(all)]
    /\ UNCHANGED detFrame

(***************************************************************************)
(* The register drivers' init: sensors/lsm6dsl.rs, lis3mdl.rs, bmp388.rs,  *)
(* icm42688p.rs.  An init is the list of its bus transactions; each names  *)
(* the error its failure is mapped to (`?` alone gives I2cError through    *)
(* From<I2CError>).                                                        *)
(***************************************************************************)
Step(op, register, what, err) ==
    [op |-> op, register |-> register, what |-> what, err |-> err]

InitSteps(driver) ==
    CASE driver = "lsm6dsl" ->
           << Step("read", 15, "chip_id", "I2cError"),
              Step("write", 16, "config", "InitError"),
              Step("write", 17, "config", "InitError") >>
      [] driver = "lis3mdl" ->
           << Step("read", 15, "chip_id", "I2cError"),
              Step("write", 32, "config", "InitError"),
              Step("write", 33, "config", "InitError"),
              Step("write", 34, "config", "InitError"),
              Step("write", 35, "config", "InitError") >>
      [] driver = "bmp388" ->
           << Step("read", 0, "chip_id", "I2cError"),
              Step("write", 126, "reset", "InitError"),
              Step("read", 49, "calibration", "CalibrationError"),
              Step("write", 28, "config", "InitError"),
              Step("write", 29, "config", "InitError"),
              Step("write", 31, "config", "InitError"),
              Step("write", 27, "config", "InitError") >>
      [] driver = "icm42688p" ->
           << Step("write", 118, "bank", "InitError"),
              Step("read", 117, "chip_id", "I2cError"),
              Step("write", 17, "reset", "InitError"),
              Step("write", 78, "config", "InitError"),
              Step("write", 79, "config", "InitError"),
              Step("write", 80, "config", "InitError") >>

Drivers == {"lsm6dsl", "lis3mdl", "bmp388", "icm42688p"}

\* the identity values an init accepts; the first is the one it reports as
\* expected
ChipIds(driver) ==
    CASE driver = "lsm6dsl"   -> << 106 >>
      [] driver = "lis3mdl"   -> << 61 >>
      [] driver = "bmp388"    -> << 80 >>
      [] driver = "icm42688p" -> << 71, 68 >>

\* what the identity register of the device on the bus may hold
ChipValues == {106, 61, 80, 71, 68, 85}

InitResult(kind, sensor, expected, actual) ==
    [kind |-> kind, sensor |-> sensor, expected |-> expected,
     actual |-> actual]

\* the transaction at drv.next succeeds; `value` is what a read of the
\* identity register returns
DriverStepOk(value) ==
    /\ drv.pc = "init"
    /\ drv.next <= Len(InitSteps(drv.driver))
    /\ LET step == InitSteps(drv.driver)[drv.next]
           done == [drv EXCEPT !.log = Append(@, step), !.next = @ + 1]
           ids == ChipIds(drv.driver)
       IN  drv' =
             IF step.what = "chip_id"
                /\ \A i \in DOMAIN ids : ids[i] # value
             THEN [done EXCEPT !.pc = "returned",
                       !.result = InitResult("WrongChipId", drv.sensor,
                                             ids[1], value)]
             ELSE IF drv.next = Len(InitSteps(drv.driver))
             THEN [done EXCEPT !.pc = "returned",
                       !.result = InitResult("Ok", "", 0, 0)]
             ELSE done
    /\ UNCHANGED << phase, reg, clockVars, pureVars, hubVars, mavVars, mavNext,
                    busOwner, pc, sequence_counter, outbox, publish_result,
                    published, last_read, sub, proc, det, hdr, spawn >>

\* the transaction at drv.next fails on the bus
DriverStepErr ==
    /\ drv.pc = "init"
    /\ drv.next <= Len(InitSteps(drv.driver))
    /\ LET step == InitSteps(drv.driver)[drv.next]
       IN  drv' = [drv EXCEPT
               !.pc = "returned",
               !.log = Append(@, step),
               !.failed_at = drv.next,
               !.result = InitResult(step.err,
                              IF step.err = "I2cError" THEN ""
                              ELSE drv.sensor, 0, 0)]
    /\ UNCHANGED << phase, reg, clockVars, pureVars, hubVars, mavVars, mavNext,
                    busOwner, pc, sequence_counter, outbox, publish_result,
                    published, last_read, sub, proc, det, hdr, spawn >>

(***************************************************************************)
(* The period of a polled task: scheduler.rs, lines 40-46 and the sleep    *)
(* that ends every pass of the loop.                                       *)
(***************************************************************************)
\* values of SensorEntry::frequency (an Option<u32>) a file may give
Frequencies == {0, 1, 7, 100, 1000, 1001, 16777217}

\* the ids of the entries of sensors.toml
EntryIds == {"imu0", "mag0"}

\* sensors.toml: up to two entries, ids may repeat
SensorConfigs ==
    UNION { [1..n -> [id : EntryIds,
                      frequency : {None} \cup {Some(f) : f \in Frequencies}]]
            : n \in 0..2 }

\* `frequency as f32`: the nearest value with a 24-bit significand, ties to
\* even (operands below 2^30)
as_f32(n) ==
    IF n < 16777216 THEN n
    ELSE LET e == CHOOSE k \in 1..6 : n < 16777216 * (2 ^ k)
                                      /\ n >= 8388608 * (2 ^ k)
             ulp == 2 ^ e
             lo == (n \div ulp) * ulp
             rest == n - lo
         IN  IF 2 * rest < ulp THEN lo
             ELSE IF 2 * rest > ulp THEN lo + ulp
             ELSE IF (lo \div ulp) % 2 = 0 THEN lo ELSE lo + ulp

\* .iter().find(|s| s.id == sensor_id).and_then(|s| s.frequency)
\*     .unwrap_or(100)
frequency_of(sensors, sensor_id) ==
    LET hits == SelectSeq(sensors, LAMBDA s : s.id = sensor_id)
    IN  IF hits = << >> THEN 100
        ELSE IF hits[1].frequency = None THEN 100
        ELSE Unwrap(hits[1].frequency)

\* a period rounded to the nearest millisecond
sleep_duration_rounded(frequency) ==
    LET f == as_f32(frequency)
    IN  IF f = 0 THEN [kind |-> "u64_max", ms |-> 0]
        ELSE [kind |-> "ms", ms |-> (1000 + (f \div 2)) \div f]

\* Duration::from_millis((1000.0 / frequency as f32) as u64).  The quotient
\* of 1000.0 by a non-zero f32 is within half an ulp of the real quotient,
\* which is an integer or at least 1/1000 away from one, so its integer
\* part is that of the real quotient; 1000.0 / 0.0 is +inf, and the cast of
\* +inf saturates at u64::MAX.
sleep_duration(frequency) ==
    LET f == as_f32(frequency)
    IN  IF f = 0 THEN [kind |-> "u64_max", ms |-> 0]
        ELSE [kind |-> "ms", ms |-> 1000 \div f]

\* spawn_sensor_tasks reaches the sensor: its period is computed and its
\* task spawned
SpawnPolledTask ==
    /\ spawn.pc = "spawn"
    /\ LET frequency == frequency_of(spawn.sensors, spawn.sensor_id)
       IN  spawn' = [spawn EXCEPT !.pc = "loop",
                                  !.sleep_duration = sleep_duration(frequency)]
    /\ UNCHANGED << phase, reg, clockVars, pureVars, hubVars, mavVars, mavNext,
                    busOwner, pc, sequence_counter, outbox, publish_result,
                    published, last_read, sub, proc, det, hdr, drv >>

\* one pass of the loop down to the sleep: lock, read, drop, and on Ok the
\* publishes
TaskPass(result) ==
    /\ spawn.pc = "loop"
    /\ spawn.passes < MaxSeq
    /\ spawn' = [spawn EXCEPT !.pc = "sleep", !.passes = @ + 1,
                              !.last_read = result]
    /\ UNCHANGED << phase, reg, clockVars, pureVars, hubVars, mavVars, mavNext,
                    busOwner, pc, sequence_counter, outbox, publish_result,
                    published, last_read, sub, proc, det, hdr, drv >>

\* sleep(sleep_duration).await begins
TaskSleep ==
    /\ spawn.pc = "sleep"
    /\ spawn' = [spawn EXCEPT !.pc = "asleep",
                              !.slept = Append(@, spawn.sleep_duration)]
    /\ UNCHANGED << phase, reg, clockVars, pureVars, hubVars, mavVars, mavNext,
                    busOwner, pc, sequence_counter, outbox, publish_result,
                    published, last_read, sub, proc, det, hdr, drv >>

\* the sleep is over: a sleep of u64::MAX ms never is
TaskWake ==
    /\ spawn.pc = "asleep"
    /\ spawn.sleep_duration.kind = "ms"
    /\ spawn' = [spawn EXCEPT !.pc = "loop"]
    /\ UNCHANGED << phase, reg, clockVars, pureVars, hubVars, mavVars, mavNext,
                    busOwner, pc, sequence_counter, outbox, publish_result,
                    published, last_read, sub, proc, det, hdr, drv >>

(***************************************************************************)
(* init_all with several serial buses: registry.rs, lines 245-284.  One    *)
(* connection per serial bus id, each with its own detected set.           *)
(***************************************************************************)
SerialBusIds == {"serial0", "serial1"}

\* the order in which a snapshot is walked (any order gives the same ids)
KindOrder == << "ScaledImu", "ScaledImu2", "ScaledPressure" >>

\* the receive loop of connection b detects kind d before the registry
\* takes the snapshot of b
ConnDetect(b, d) ==
    /\ reg.pc = "discover"
    /\ b \in reg.todo
    /\ d \notin reg.detected[b]
    /\ reg' = [reg EXCEPT !.detected[b] = Insert(@, d)]
    /\ UNCHANGED << auxVars, phase, clockVars, pureVars, hubVars, mavVars,
                    mavNext, busOwner, pc, sequence_counter, outbox,
                    publish_result, published, last_read, sub >>

\* one pass of `for (bus_id, mavlink_conn) in mavlink_connections.iter()`:
\* the snapshot of b, and one sensor pushed per kind in it
DiscoverOn(b) ==
    /\ reg.pc = "discover"
    /\ b \in reg.todo
    /\ LET detected == get_detected_sensors(reg.detected[b])
           kinds == SelectSeq(KindOrder, LAMBDA d : d \in detected)
       IN  reg' = [reg EXCEPT
               !.todo = @ \ {b},
               !.sensors = @ \o [i \in DOMAIN kinds |->
                                    [id |-> MavSensorId(kinds[i]),
                                     bus |-> b]]]
    /\ UNCHANGED << auxVars, phase, clockVars, pureVars, hubVars, mavVars,
                    mavNext, busOwner, pc, sequence_counter, outbox,
                    publish_result, published, last_read, sub >>

\* Ok((sensors, i2c_bus_map))
InitAllReturn ==
    /\ reg.pc = "discover"
    /\ reg.todo = {}
    /\ reg' = [reg EXCEPT !.pc = "returned"]
    /\ UNCHANGED << auxVars, phase, clockVars, pureVars, hubVars, mavVars,
                    mavNext, busOwner, pc, sequence_counter, outbox,
                    publish_result, published, last_read, sub >>

(***************************************************************************)
(* Specifications.  The deployments differ in the sensors configured, in   *)
(* whether a flight controller is attached and in the clients connected.   *)
(***************************************************************************)
SchedNext == \E s \in PolledIds : Lock(s) \/ ReadOk(s) \/ ReadErr(s)

PublishNext == \E s \in SensorIds : SendKind(s) \/ SendAll(s) \/ StatsUpdate(s)

ClientSteps(R) ==
    \E r \in R : \/ \E c \in HubChans : Subscribe(r, c)
                 \/ StreamRecv(r)
                 \/ Disconnect(r)

\* what the flight controller of the modelled deployment sends
FcStream == {"HEARTBEAT", "SCALED_IMU", "SCALED_PRESSURE"}

IngestNext ==
    \/ \E wire \in FcStream : MavRead(wire)
    \/ MavReadError
    \/ MavWake
    \/ MavParseError
    \/ MavDetect
    \/ MavSend
    \/ MavYield

MavSensorNext == \E s \in MavIds : MavSensorRecv(s) \/ MavSensorLagged(s)

\* one register sensor (an IMU, a magnetometer or a barometer), two clients
Init == \E s \in {"imu0", "mag0", "baro0"} : InitCfg({s}, FALSE, {EmptyFrame})

Next == RegistryDiscover \/ SchedNext \/ PublishNext \/ ClientSteps(Subs)

Spec == Init /\ [][Next]_vars

\* two register IMUs on one bus, one client
OrderInit == InitCfg({"imu0", "imu1"}, FALSE, {EmptyFrame})

OrderNext == RegistryDiscover \/ SchedNext \/ PublishNext \/ ClientSteps({"c1"})

OrderSpec == OrderInit /\ [][OrderNext]_vars

\* one register IMU and a flight controller, no client
PipelineInit == InitCfg({"imu0"}, TRUE, {EmptyFrame})

PipelineNext ==
    RegistryDiscover \/ SchedNext \/ PublishNext \/ IngestNext \/ MavSensorNext

PipelineSpec == PipelineInit /\ [][PipelineNext]_vars

\* one register IMU, one client, and time passing
ClockInit == InitCfg({"imu0"}, FALSE, {EmptyFrame})

ClockNext ==
    RegistryDiscover \/ SchedNext \/ PublishNext \/ ClientSteps({"c1"})
        \/ ClockTick

ClockSpec == ClockInit /\ [][ClockNext]_vars

\* a flight controller and one client; the producers' steps are taken when
\* they can be, the consumers (the client's stream, the MAVLink sensors'
\* receivers) may stall for ever
FairInit == InitCfg({}, TRUE, {EmptyFrame})

\* the receive loop on a stream of heartbeats and IMU frames
ImuIngest ==
    \/ \E wire \in {"HEARTBEAT", "SCALED_IMU"} : MavRead(wire)
    \/ MavReadError
    \/ MavWake
    \/ MavParseError
    \/ MavDetect
    \/ MavSend
    \/ MavYield

FairNext ==
    RegistryDiscover \/ PublishNext \/ ImuIngest \/ MavSensorNext
        \/ ClientSteps({"c1"})

ProducerFairness ==
    /\ \A s \in SensorIds : /\ WF_vars(SendKind(s))
                            /\ WF_vars(SendAll(s))
                            /\ WF_vars(StatsUpdate(s))
    /\ WF_vars(MavDetect)
    /\ WF_vars(MavSend)
    /\ WF_vars(MavYield)

FairSpec == FairInit /\ [][FairNext]_vars /\ ProducerFairness

\* two register IMUs on one bus, no client, time passing: every read of
\* imu0 fails, imu1 is healthy (its reads succeed again and again, though
\* not always)
FailInit == InitCfg({"imu0", "imu1"}, FALSE, {EmptyFrame})

FailNext ==
    \/ RegistryDiscover
    \/ Lock("imu0")
    \/ ReadErr("imu0")
    \/ Lock("imu1")
    \/ ReadOk("imu1")
    \/ ReadErr("imu1")
    \/ PublishNext
    \/ ClockTick

\* the runtime runs every task that can run, a read returns, the bus mutex
\* serves its waiters in turn, and the healthy sensor's reads keep succeeding
TaskFairness ==
    /\ WF_vars(RegistryDiscover)
    /\ \A s \in {"imu0", "imu1"} : /\ SF_vars(Lock(s))
                                   /\ WF_vars(SendKind(s))
                                   /\ WF_vars(SendAll(s))
                                   /\ WF_vars(StatsUpdate(s))
    /\ WF_vars(ReadErr("imu0"))
    /\ WF_vars(ReadOk("imu1") \/ ReadErr("imu1"))
    /\ SF_vars(ReadOk("imu1"))

FailSpec == FailInit /\ [][FailNext]_vars /\ TaskFairness

\* the whole start-up: two register buses and a serial bus with path
\* "auto", an IMU on the first and a magnetometer on the second register
\* bus, a flight controller that sends heartbeats only, no client
BootInit ==
    HubInit("config", {}, FALSE, {EmptyFrame},
            RegStart(<< "i2c0", "serial0", "i2c1" >>, << "imu0", "mag0" >>))

RegistryNext ==
    \/ OpenI2cOk
    \/ OpenI2cErr
    \/ DetectErr
    \/ DetectOk
    \/ OpenSerialOk
    \/ OpenSerialErr
    \/ InitSensorOk
    \/ InitSensorErr
    \/ SensorBusMissing
    \/ LocalInitDone
    \/ RegistryDiscover

BootNext ==
    \/ RegistryNext \/ SchedNext \/ PublishNext
    \/ MavRead("HEARTBEAT") \/ MavSend \/ MavYield

BootSpec == BootInit /\ [][BootNext]_vars

\* the derivations alone, on every frame
DeriveInit == InitCfg({}, FALSE, Frames)

DeriveNext == DeriveScheduler \/ DeriveMavlink

DeriveSpec == DeriveInit /\ [][DeriveNext]_vars

\* either binary, one register IMU, no client: the start of the RPC server,
\* its failure or its end, and the exit of the process; nothing runs once
\* the process has exited
ServeInit ==
    /\ CoreInit("init", {"imu0"}, FALSE, {EmptyFrame}, RegAtGrace({"imu0"}))
    /\ proc \in {ProcStart(entry) : entry \in {"main", "board"}}
    /\ det = DetIdle
    /\ hdr = HdrIdle
    /\ spawn = SpawnStart("serial0")
    /\ drv = DrvIdle

ServeNext ==
    \/ proc.exit = None /\ (RegistryDiscover \/ SchedNext \/ PublishNext)
    \/ ServerBind
    \/ ServerBindErr
    \/ ServerError
    \/ ServerStop
    \/ ProcessExit

ServeSpec == ServeInit /\ [][ServeNext]_vars

\* one header: either the arguments of a Header::new still to be called, or
\* a header with arbitrary field values, then its conversion and its reading
HeaderInit ==
    /\ CoreInit("init", {}, FALSE, {EmptyFrame}, RegAtGrace({}))
    /\ proc = ProcStart("main")
    /\ det = DetIdle
    /\ spawn = SpawnStart("serial0")
    /\ drv = DrvIdle
    /\ \/ \E args \in HeaderArgs :
              hdr = [stage |-> "args", by |-> "new", args |-> args,
                     h |-> None, wire |-> None, back |-> None]
       \/ \E h \in HeaderValues :
              hdr = [stage |-> "built", by |-> "given", args |-> None,
                     h |-> h, wire |-> None, back |-> None]

HeaderNext == HeaderBuild \/ HeaderEncode \/ HeaderDecode \/ ClockTick

HeaderSpec == HeaderInit /\ [][HeaderNext]_vars

\* one register IMU and a flight controller on a serial bus whose id is any
\* of SerialIdChoices, no client
PushInit ==
    /\ CoreInit("init", {"imu0"}, TRUE, {EmptyFrame}, RegAtGrace({"imu0"}))
    /\ proc = ProcStart("main")
    /\ det = DetIdle
    /\ hdr = HdrIdle
    /\ spawn \in {SpawnStart(id) : id \in SerialIdChoices}
    /\ drv = DrvIdle

PushNext ==
    \/ PipelineNext
    \/ \E s \in MavIds : PushLock(s) \/ PushRead(s)

PushSpec == PushInit /\ [][PushNext]_vars

\* one run of the flight-controller detection over any enumeration of ports
DetectInit ==
    /\ CoreInit("init", {}, FALSE, {EmptyFrame}, RegAtGrace({}))
    /\ proc = ProcStart("main")
    /\ hdr = HdrIdle
    /\ spawn = SpawnStart("serial0")
    /\ drv = DrvIdle
    /\ \E ports \in Enumerations : det = DetStart(ports)

DetectNext ==
    \/ DetectSpawn
    \/ \E p \in PortNames :
           \/ ProbeOpen(p)
           \/ ProbeOpenErr(p)
           \/ \E outcome \in ReadOutcomes, took \in ReadDurations :
                  ProbeRead(p, outcome, took)
           \/ ProbeWindowEnd(p)
    \/ DetectJoin
    \/ DetectReturn

DetectSpec == DetectInit /\ [][DetectNext]_vars

\* a flight controller alone, whose stream also carries a message kind the
\* loop does not recognise
WireInit == InitCfg({}, TRUE, {EmptyFrame})

WireNext ==
    \/ RegistryDiscover \/ PublishNext \/ MavSensorNext
    \/ \E wire \in {"HEARTBEAT", "OTHER", "SCALED_IMU"} : MavRead(wire)
    \/ MavReadError \/ MavWake \/ MavParseError
    \/ MavDetect \/ MavSend \/ MavYield

WireSpec == WireInit /\ [][WireNext]_vars

\* the init of one driver on a device with any identity value, every
\* transaction of which may fail
DriverInit ==
    /\ CoreInit("init", {}, FALSE, {EmptyFrame}, RegAtGrace({}))
    /\ proc = ProcStart("main")
    /\ det = DetIdle
    /\ hdr = HdrIdle
    /\ spawn = SpawnStart("serial0")
    /\ \E driver \in Drivers, sensor \in {"imu0", "baro0"} :
           drv = [pc |-> "init", driver |-> driver, sensor |-> sensor,
                  next |-> 1, log |-> << >>, failed_at |-> 0,
                  result |-> InitResult("none", "", 0, 0)]

DriverNext == (\E value \in ChipValues : DriverStepOk(value)) \/ DriverStepErr

DriverSpec == DriverInit /\ [][DriverNext]_vars

\* the task of imu0 under any sensors.toml
PeriodInit ==
    /\ CoreInit("init", {}, FALSE, {EmptyFrame}, RegAtGrace({}))
    /\ proc = ProcStart("main")
    /\ det = DetIdle
    /\ hdr = HdrIdle
    /\ drv = DrvIdle
    /\ \E sensors \in SensorConfigs :
           spawn = [pc |-> "spawn", sensors |-> sensors, sensor_id |-> "imu0",
                    sleep_duration |-> [kind |-> "none", ms |-> 0],
                    passes |-> 0, last_read |-> "none", slept |-> << >>]

PeriodNext ==
    \/ SpawnPolledTask
    \/ \E result \in {"Ok", "Err"} : TaskPass(result)
    \/ TaskSleep
    \/ TaskWake

PeriodSpec == PeriodInit /\ [][PeriodNext]_vars

\* init_all at its discovery loop, with one or two serial buses and the
\* local sensor imu0 already in the list
MultiInit ==
    /\ \E conns \in (SUBSET SerialBusIds) \ {{}} :
           CoreInit("init", {}, FALSE, {EmptyFrame},
                    [pc |-> "discover", todo |-> conns,
                     detected |-> [b \in SerialBusIds |-> {}],
                     sensors |-> << [id |-> "imu0", bus |-> "i2c0"] >>])
    /\ proc = ProcStart("main")
    /\ det = DetIdle
    /\ hdr = HdrIdle
    /\ drv = DrvIdle
    /\ spawn = SpawnStart("serial0")

MultiNext ==
    \/ \E b \in SerialBusIds :
           \/ \E i \in DOMAIN KindOrder : ConnDetect(b, KindOrder[i])
           \/ DiscoverOn(b)
    \/ InitAllReturn

MultiSpec == MultiInit /\ [][MultiNext]_vars

\* the deployment of FairSpec where init_all, too, goes on when it can: its
\* grace period is a sleep of 500 ms
LateSpec ==
    FairInit /\ [][FairNext]_vars /\ ProducerFairness
        /\ WF_vars(RegistryDiscover)

\* two register IMUs on one bus and a flight controller, no client: every
\* lock of the program has a task that takes it
ContendInit == InitCfg({"imu0", "imu1"}, TRUE, {EmptyFrame})

ContendNext ==
    RegistryDiscover \/ SchedNext \/ PublishNext \/ ImuIngest \/ MavSensorNext

ContendSpec == ContendInit /\ [][ContendNext]_vars

(***************************************************************************)
(* Properties.                                                             *)
(***************************************************************************)

\* C1: for every sensor, polled or MAVLink-sourced, the i-th header it has
\* passed to the hub's publish carries its own id and seq = i: the seq values
\* start at 1 and go up by exactly 1, and a read error in between neither
\* repeats nor skips a value.
C1_SeqFromOneWithoutGaps ==
    \A s \in SensorIds : \A i \in 1..Len(published[s]) :
        /\ published[s][i].sensor_id = s
        /\ published[s][i].seq = i

\* a register sensor whose read failed after its first publication, beside
\* a MAVLink sensor that has published twice
C1_Witness ==
    /\ Len(published["imu0"]) = 1
    /\ last_read["imu0"] = "Err"
    /\ sequence_counter["imu0"] = 1
    /\ Len(published["fc_imu0"]) >= 2

\* C2: for every sensor, the t_mono_ns of the headers it has passed to
\* publish never decreases from one message to a later one.
C2_MonoNonDecreasing ==
    \A s \in SensorIds : \A i, j \in 1..Len(published[s]) :
        i < j => published[s][i].t_mono_ns <= published[s][j].t_mono_ns

\* the messages derived from frame_in that are IMU messages
ImuMessages == {i \in 1..Len(derived.messages) : derived.messages[i].kind = "imu"}

\* C3: on the scheduler path and on the MAVLink path alike, the messages
\* derived from a frame contain an IMU message if and only if the frame has
\* both accel and gyro, and that message carries exactly these two vectors.
C3_ImuIffAccelAndGyro ==
    derived.path # "none" =>
        /\ ImuMessages # {} <=> (frame_in.accel # None /\ frame_in.gyro # None)
        /\ Cardinality(ImuMessages) <= 1
        /\ \A i \in ImuMessages :
              /\ derived.messages[i].accel = Unwrap(frame_in.accel)
              /\ derived.messages[i].gyro = Unwrap(frame_in.gyro)

\* the push path was handed a frame with accel, mag and a pressure but no
\* gyro, and derived messages from it, none of them an IMU message
C3_Witness ==
    /\ derived.path = "mavlink"
    /\ frame_in.accel # None /\ frame_in.gyro = None
    /\ frame_in.mag # None /\ frame_in.pressure_static # None
    /\ derived.messages # << >>
    /\ ImuMessages = {}

\* the response streams that were handed a lag signal
Lagged(r) == \E i \in 1..Len(sub[r].got) : sub[r].got[i].kind = "status"

\* C4: a subscriber that fell more than the capacity behind and was handed
\* the lag signal keeps its stream: the signal does not terminate it (only
\* the client itself closes it).
C4_LagSignalKeepsStream ==
    \A r \in Subs : Lagged(r) => sub[r].state \in {"open", "closed"}

\* what a response stream has been handed, the lag signals left out
Data(r) == SelectSeq(sub[r].got, LAMBDA item : item.kind # "status")

\* the receive of subscriber r in this step
Receives(r) == Len(sub'[r].got) = Len(sub[r].got) + 1

\* C5: a subscriber that was never handed a lag signal has received every
\* message enqueued on its channel after its subscription, up to its cursor
\* and in the channel's order, whatever the other subscribers do; and a
\* subscriber is handed a lag signal only when it is itself more than the
\* capacity behind.
C5_KeepsUp ==
    \A r \in Subs : (sub[r].state # "idle" /\ ~Lagged(r)) =>
        sub[r].got = SubSeq(hub_tx[sub[r].chan].log, sub[r].since + 1,
                            sub[r].next)

C5_LagIsOwn ==
    \A r \in Subs : (Receives(r) /\ Lagged(r)') =>
        Len(hub_tx[sub[r].chan].log) - sub[r].next > Capacity(sub[r].chan)

C5_SlowSubscriberAloneLoses == []C5_KeepsUp /\ [][C5_LagIsOwn]_vars

\* c1 lagged and lost its stream while c2, on the same channel, has
\* received all three messages enqueued since it subscribed
C5_Witness ==
    /\ sub["c1"].chan = "imu" /\ sub["c2"].chan = "imu"
    /\ Lagged("c1")
    /\ sub["c2"].state = "open" /\ ~Lagged("c2")
    /\ Len(sub["c2"].got) = 3

\* C7: every message a subscriber has been handed sits in its channel at a
\* position after the channel's length at subscription: nothing enqueued
\* before the subscribe call is delivered, on any of the four streams.
C7_NoReplay ==
    \A r \in Subs : \A i \in 1..Len(Data(r)) :
        LET log == hub_tx[sub[r].chan].log
        IN /\ \E j \in (sub[r].since + 1)..Len(log) : log[j] = Data(r)[i]
           /\ \A j \in 1..sub[r].since : log[j] # Data(r)[i]

\* c2 subscribed to a channel that already held a message and has since
\* been handed a later one
C7_Witness ==
    /\ sub["c2"].state = "open"
    /\ sub["c2"].since >= 1
    /\ Len(Data("c2")) >= 1

\* C6: whatever the consumers do (they may stall for ever), every publish
\* call that has started returns to its caller's loop, and the MAVLink
\* receive loop is back at its read after every broadcast send.
C6_ProducersNeverBlocked ==
    /\ \A s \in MavIds : (pc[s] = "send_kind") ~> (pc[s] = Home(s))
    /\ (mavPc = "send") ~> (mavPc = "read")

\* the client is more than the capacity behind on the IMU stream and has
\* not received anything, a MAVLink sensor's receiver is behind as well,
\* and the publish calls and the broadcast sends have all returned
C6_Witness ==
    /\ sub["c1"].state = "open" /\ sub["c1"].chan = "imu"
    /\ sub["c1"].got = << >>
    /\ Len(hub_tx["imu"].log) - sub["c1"].next > Capacity("imu")
    /\ pc["fc_imu0"] = "recv"
    /\ Len(mav_tx.log) - mavNext["fc_imu0"] >= 1
    /\ wireRead = MaxWire /\ mavPc = "read"

\* the three steps of a publish call of task s
SendsKind(s) == pc[s] = "send_kind" /\ pc'[s] = "send_all"
SendsAll(s) == pc[s] = "send_all" /\ pc'[s] = "stats"
Returns(s) == pc[s] = "stats" /\ pc'[s] # "stats"

\* the hub channels other than c are as they were
OthersUntouched(c) == \A d \in HubChans \ {c} : hub_tx'[d] = hub_tx[d]

\* the envelope of a message on the unified stream
EnvelopeOf(message) ==
    [kind |-> "envelope", tag |-> message.kind, data |-> ToProto(message)]

\* C8 (as amended): a publish touches the channel of the message's kind and
\* the unified channel and no other; on each of the two that has a receiver
\* it enqueues exactly one value (the message, resp. its envelope tagged
\* with the kind) at the tail, and one that has no receiver stays as it is.
C8_RoutesByKind ==
    \A s \in SensorIds :
        LET message == Head(outbox[s])
            own == hub_tx[message.kind]
            all == hub_tx["all"]
        IN /\ SendsKind(s) =>
                /\ hub_tx'[message.kind].log =
                       IF own.rx_cnt > 0
                       THEN Append(own.log, ToProto(message)) ELSE own.log
                /\ OthersUntouched(message.kind)
           /\ SendsAll(s) =>
                /\ hub_tx'["all"].log =
                       IF all.rx_cnt > 0
                       THEN Append(all.log, EnvelopeOf(message)) ELSE all.log
                /\ OthersUntouched("all")
           /\ Returns(s) => hub_tx' = hub_tx

C8_Routing == [][C8_RoutesByKind]_vars

\* C8 (as stated): every publish enqueues one copy on the channel of its
\* kind and one envelope on the unified channel.
C8_AlwaysEnqueues ==
    \A s \in SensorIds :
        LET message == Head(outbox[s])
        IN /\ SendsKind(s) =>
                hub_tx'[message.kind].log =
                    Append(hub_tx[message.kind].log, ToProto(message))
           /\ SendsAll(s) =>
                hub_tx'["all"].log =
                    Append(hub_tx["all"].log, EnvelopeOf(message))

C8_AsStated == [][C8_AlwaysEnqueues]_vars

\* the magnetometer's first publish has returned with a client on each of
\* its two channels: one message on "mag", one envelope tagged "mag" on
\* "all", nothing on "imu" and "baro"
C8_Witness ==
    /\ pc["mag0"] = "idle" /\ publish_result["mag0"] = "Ok"
    /\ hub_tx["mag"].rx_cnt = 1 /\ hub_tx["all"].rx_cnt = 1
    /\ Len(hub_tx["mag"].log) = 1 /\ hub_tx["mag"].log[1].kind = "mag"
    /\ Len(hub_tx["all"].log) = 1 /\ hub_tx["all"].log[1].tag = "mag"
    /\ hub_tx["imu"].log = << >> /\ hub_tx["baro"].log = << >>

\* no response stream is open
NoSubscriber == \A r \in Subs : sub[r].state # "open"

\* the stats entries other than the one of sensor id are as they were
OnlyEntryChanged(id) ==
    /\ DOMAIN sensor_stats' = DOMAIN sensor_stats \cup {id}
    /\ \A other \in DOMAIN sensor_stats \ {id} :
          sensor_stats'[other] = sensor_stats[other]

\* C9: while no subscriber exists, the steps of a publish call leave the
\* channels and the response streams as they are (nothing is retained), the
\* call returns Ok, and the one thing it changes in the hub is the stats
\* entry of the publishing sensor.
C9_PublishUnobserved ==
    \A s \in SensorIds :
        /\ (NoSubscriber /\ (SendsKind(s) \/ SendsAll(s))) =>
              /\ hub_tx' = hub_tx
              /\ sensor_stats' = sensor_stats
              /\ sub' = sub
        /\ (NoSubscriber /\ Returns(s)) =>
              /\ hub_tx' = hub_tx
              /\ sub' = sub
              /\ publish_result'[s] = "Ok"
              /\ OnlyEntryChanged(s)
              /\ sensor_stats'[s].messages_sent =
                     IF s \in DOMAIN sensor_stats
                     THEN sensor_stats[s].messages_sent + 1 ELSE 1

C9_NoSubscriberPublish == [][C9_PublishUnobserved]_vars

\* a publish has returned Ok and was counted while nobody had subscribed
\* yet, and every channel is empty
C9_Witness ==
    /\ \A r \in Subs : sub[r].state = "idle"
    /\ publish_result["baro0"] = "Ok"
    /\ "baro0" \in DOMAIN sensor_stats
    /\ sensor_stats["baro0"].messages_sent = 2
    /\ \A c \in HubChans : hub_tx[c].log = << >>

\* the header of a value on a hub channel
HeaderOf(entry) == IF entry.kind = "envelope" THEN entry.data.h ELSE entry.h

\* C10: on every hub channel, of two values of the same sensor the earlier
\* one has the smaller seq, however the publish steps of the sensors' tasks
\* interleave.
C10_PerSensorOrder ==
    \A c \in HubChans : \A i, j \in 1..Len(hub_tx[c].log) :
        (i < j /\ HeaderOf(hub_tx[c].log[i]).sensor_id
                    = HeaderOf(hub_tx[c].log[j]).sensor_id)
            => HeaderOf(hub_tx[c].log[i]).seq < HeaderOf(hub_tx[c].log[j]).seq

\* two values of imu0 on a channel with a value of imu1 between them
C10_Witness ==
    \E c \in HubChans : \E i, j, k \in 1..Len(hub_tx[c].log) :
        /\ i < j /\ j < k
        /\ HeaderOf(hub_tx[c].log[i]).sensor_id = "imu0"
        /\ HeaderOf(hub_tx[c].log[j]).sensor_id = "imu1"
        /\ HeaderOf(hub_tx[c].log[k]).sensor_id = "imu0"

\* C11: the detected-sensor set of the connection only grows: a step never
\* removes a kind from it, so what get_detected_sensors returns contains
\* whatever it returned at any earlier time.
C11_Grows ==
    /\ detected_sensors \subseteq detected_sensors'
    /\ get_detected_sensors(detected_sensors)
           \subseteq get_detected_sensors(detected_sensors')

C11_DetectedSetMonotone == [][C11_Grows]_vars

\* the registry took its snapshot when only the IMU had been seen, and the
\* pressure kind joined the set afterwards
C11_Witness ==
    /\ phase = "running"
    /\ pc["fc_imu0"] # "absent" /\ pc["fc_baro0"] = "absent"
    /\ detected_sensors = {"ScaledImu", "ScaledPressure"}

\* C12: init_all does not fail because the init of one configured register
\* sensor failed: the registry goes on and the process is not aborted.
C12_SensorInitFailureTolerated ==
    reg.error = "RegistrationError" => (reg.pc # "failed" /\ phase # "aborted")

\* the register buses of buses.toml whose open has failed
FailedI2cBuses ==
    {b \in I2cBuses : /\ \A i \in 1..Len(reg.buses) : reg.buses[i] # b
                      /\ b \notin reg.i2c_bus_map}

\* C13: after a register bus failed to open, init_all does not fail for the
\* lack of that bus: the sensors declared on it are left out and the others
\* are initialised.
C13_BusOpenFailureTolerated ==
    FailedI2cBuses # {} => ~(reg.pc = "failed" /\ reg.error = "BusNotFound")

\* the registry is at a serial bus with path "auto"
AtAutoDetect ==
    \/ reg.pc = "open_serial"
    \/ (reg.pc = "buses" /\ Head(reg.buses) \in SerialBuses)

\* C15: while the registry is at the auto-detected serial bus it does not
\* fail: a step from there stays in the retry loop or goes on with the
\* serial port open.
C15_StaysOrProceeds ==
    AtAutoDetect =>
        /\ reg'.pc # "failed"
        /\ phase' # "aborted"

C15_AutoDetectNeverFails == [][C15_StaysOrProceeds]_vars

\* the i-th wait of the series 100, 200, 400, 800, 1600, 2000, 2000, ...
ExpectedWait(i) ==
    IF i <= 5 THEN << 100, 200, 400, 800, 1600 >>[i] ELSE 2000

\* C16: while the detection keeps failing, the i-th wait slept is the i-th
\* term of 100, 200, 400, 800, 1600, 2000, 2000, ... ms, and the wait that
\* comes next is the term after the last one slept.
C16_BackoffSeries ==
    /\ \A i \in 1..Len(reg.waits) : reg.waits[i] = ExpectedWait(i)
    /\ AtAutoDetect /\ reg.pc = "buses" =>
           reg.backoff_ms = ExpectedWait(Len(reg.waits) + 1)

\* seven detections in a row have failed: the cap was slept twice
C16_Witness ==
    /\ reg.pc = "buses"
    /\ Len(reg.waits) = 7
    /\ reg.waits[6] = 2000 /\ reg.waits[7] = 2000
    /\ reg.backoff_ms = 2000

\* the publish calls of task s that have returned
Completed(s) ==
    IF pc[s] \in {"send_all", "stats"}
    THEN Len(published[s]) - 1 ELSE Len(published[s])

\* C19: however the publish calls of the sensor tasks interleave, the
\* stats entry of a sensor id counts exactly the publish calls for that id
\* that have returned and is active; an id without such a call has no entry.
C19_StatsCountPublishes ==
    \A s \in SensorIds :
        IF Completed(s) = 0
        THEN s \notin DOMAIN sensor_stats
        ELSE /\ s \in DOMAIN sensor_stats
             /\ sensor_stats[s].messages_sent = Completed(s)
             /\ sensor_stats[s].is_active

\* imu1 is inside its third publish, between the sends and the update,
\* while imu0's three publishes have been counted
C19_Witness ==
    /\ pc["imu1"] = "stats" /\ Len(published["imu1"]) = 3
    /\ {"imu0", "imu1"} \subseteq DOMAIN sensor_stats
    /\ sensor_stats["imu1"].messages_sent = 2
    /\ sensor_stats["imu0"].messages_sent = 3

C14_FailingSensorDoesNotStallBus ==
    /\ [](published["imu0"] = << >> /\ sequence_counter["imu0"] = 0)
    /\ []<>(pc["imu0"] = "read")
    /\ [](busOwner["i2c0"] = "imu0" => <>(busOwner["i2c0"] # "imu0"))
    /\ []<>(busOwner["i2c0"] = "imu1")
    /\ <>(Len(published["imu1"]) = MaxSeq /\ pc["imu1"] = "idle")

\* imu0's read has failed and imu1, having published twice, holds the bus
C14_Witness ==
    /\ last_read["imu0"] = "Err"
    /\ published["imu0"] = << >>
    /\ busOwner["i2c0"] = "imu1"
    /\ Len(published["imu1"]) >= 2

\* the wire kind behind each id of a MAVLink-sourced sensor
WireOfId ==
    [fc_imu0 |-> "SCALED_IMU", fc_imu1 |-> "SCALED_IMU2",
     fc_imu2 |-> "SCALED_IMU3", fc_imu_highres |-> "HIGHRES_IMU",
     fc_baro0 |-> "SCALED_PRESSURE", fc_attitude |-> "ATTITUDE_QUATERNION"]

\* nothing is on its way: the receive loop of the connection waits for the
\* next message, and the sensor has consumed all its receiver holds and
\* finished its publishes
Settled(s) ==
    /\ phase = "running"
    /\ mavPc = "read"
    /\ pc[s] = "recv"
    /\ ~RecvReady(mav_tx, mavNext[s])

\* C17: once nothing is on its way, the auto-created sensor of a kind has
\* published exactly one message for every message of that kind the
\* connection ingested, those of the discovery period included.
C17_EveryIngestedMessagePublished ==
    \A s \in MavIds :
        Settled(s) => Len(published[s]) = ingested[WireOfId[s]]

\* the id table as the specification states it
IdTable ==
    [ScaledImu |-> "fc_imu0", ScaledImu2 |-> "fc_imu1",
     ScaledImu3 |-> "fc_imu2", HighresImu |-> "fc_imu_highres",
     ScaledPressure |-> "fc_baro0", AttitudeQuaternion |-> "fc_attitude"]

\* C18: at the end of the grace period the instances created are those of
\* the id table for the kinds of the detected snapshot, one per kind, and no
\* other instance is created then or later; an instance goes on to publish
\* only from a message of the wire kind behind its id.
C18_Created ==
    /\ phase = "init" /\ phase' = "running" =>
           /\ \A s \in MavIds :
                  pc'[s] # "absent" <=>
                      \E d \in detected_sensors : IdTable[d] = s
           /\ Cardinality({s \in MavIds : pc'[s] # "absent"})
                  = Cardinality(detected_sensors)
    /\ phase = "running" =>
           \A s \in MavIds : pc[s] = "absent" => pc'[s] = "absent"
    /\ \A s \in MavIds :
           pc[s] = "recv" /\ pc'[s] = "send_kind" =>
               /\ RecvItem(mav_tx, MavCap, mavNext[s]) = WireOfId[s]
               /\ \A i \in 1..Len(outbox'[s]) : outbox'[s][i].h.sensor_id = s

C21_ExitStatusTellsFailure ==
    proc.exit # None =>
        (Unwrap(proc.exit) = 0 <=> proc.server = "stopped")

\* the eleven fields of a header
HeaderFields ==
    {"device_id", "sensor_id", "frame_id", "seq", "t_utc_ns", "t_mono_ns",
     "pps_locked", "ptp_locked", "clock_err_ppb", "sigma_t_ns", "schema_v"}

BaroMessages == SelectSeq(derived.messages, LAMBDA m : m.kind = "baro")

\* the pressures of the frames, with the altitude the formula gives for the
\* positive ones (0 m at 101325 Pa, 988 m at 90000 Pa)
ExpectedAltitude(P) ==
    IF P > 0 THEN (IF P = 101325 THEN 0 ELSE 988) ELSE 0

\* C23: on both derivation paths a barometer message is derived exactly
\* when the frame has a static or a pitot pressure; its pressure is the
\* static one when present, else the pitot one; its altitude is the value
\* of the formula for a positive pressure and 0 for a pressure <= 0.
C23_BarometerDerivation ==
    derived.path # "none" =>
        LET present == frame_in.pressure_static # None
                           \/ frame_in.pressure_pitot # None
            P == IF frame_in.pressure_static # None
                 THEN Unwrap(frame_in.pressure_static)
                 ELSE Unwrap(frame_in.pressure_pitot)
        IN /\ Len(BaroMessages) = IF present THEN 1 ELSE 0
           /\ present => /\ BaroMessages[1].pressure = P
                         /\ BaroMessages[1].altitude = ExpectedAltitude(P)

\* a static pressure of 0 Pa wins over a pitot pressure of 90000 Pa, and the
\* altitude is 0
C23_Witness ==
    /\ derived.path = "scheduler"
    /\ frame_in.pressure_static = Some(0)
    /\ frame_in.pressure_pitot = Some(90000)
    /\ Len(BaroMessages) = 1
    /\ BaroMessages[1].pressure = 0
    /\ BaroMessages[1].altitude = 0

\* the message task s is publishing: it has gone out on its kind's channel
Publishing(s) == pc[s] \in {"send_all", "stats"}

\* C24: the gyro vector of every IMU message that is published is in
\* rad/s, whichever driver or MAVLink conversion made the frame.
C24_GyroInRadPerSec ==
    \A s \in SensorIds :
        Publishing(s) /\ Head(outbox[s]).kind = "imu" =>
            Head(outbox[s]).gyro = "gyro_rad_s"

\* C25: a task that is inside a read holds the lock of its bus, so no two
\* tasks of one bus are inside a read at the same time; and no task reads
\* before init_all, which initialises the sensors under the same locks, has
\* returned.
C25_OneHolderPerBus ==
    /\ \A s \in PolledIds : pc[s] = "read" => busOwner[BusOf(s)] = s
    /\ \A s, t \in PolledIds :
           s # t /\ BusOf(s) = BusOf(t) => ~(pc[s] = "read" /\ pc[t] = "read")
    /\ phase # "running" =>
           /\ \A s \in PolledIds : pc[s] # "read"
           /\ \A b \in I2cBuses : busOwner[b] = "free"

\* imu0 is inside a read on the bus it shares with imu1, which has read
\* before and is waiting for its next turn
C25_Witness ==
    /\ pc["imu0"] = "read"
    /\ busOwner["i2c0"] = "imu0"
    /\ pc["imu1"] = "idle"
    /\ last_read["imu1"] = "Ok"
    /\ last_read["imu0"] = "Ok"

\* C26: a polled task that publishes, or sleeps until its next period, does
\* not hold the lock of its bus: the lock of a read is given back before the
\* first publish, after a failed read as well.
C26_NoLockAcrossPublish ==
    \A s \in PolledIds :
        pc[s] \in {"send_kind", "send_all", "stats", "idle"} =>
            busOwner[BusOf(s)] # s

\* imu0 is in the middle of a publish while imu1 holds their bus, and imu1
\* has had a failed read before
C26_Witness ==
    /\ pc["imu0"] = "send_all"
    /\ busOwner["i2c0"] = "imu1"
    /\ pc["imu1"] = "read"
    /\ last_read["imu1"] = "Err"

\* C27: whatever the id of the serial bus, no MAVLink-sourced sensor has a
\* polling task: the scheduler never calls its read and never takes a
\* register-bus lock for it.
C27_PushSensorsNeverPolled ==
    /\ \A s \in MavIds : spawn.task[s] \notin {"idle", "read"}
    /\ \A b \in I2cBuses : busOwner[b] \notin MavIds
    /\ \A s \in MavIds : last_read[s] = "none"

\* the probes that have returned Ok(true) or Ok(false)
Answered == { p \in PortNames : det.probe[p].pc = "done"
                                /\ det.probe[p].result \in {"true", "false"} }

\* C28: a probe reports a flight controller exactly when it has read a
\* HEARTBEAT with an accepted autopilot, and it reports none only once its
\* window is over: no other read, a HEARTBEAT of another autopilot
\* included, makes it return before that.
C28_ProbeReadsOnUntilWindowEnds ==
    \A p \in Answered :
        /\ det.probe[p].result = "true"
               <=> is_flight_controller(det.probe[p].last)
        /\ det.probe[p].result = "false"
               => det.probe[p].elapsed >= ProbeWindowMs

\* the ports whose probe found a flight controller
Valid == { p \in PortNames : det.probe[p].result = "true" }

\* C29: the port detect_flight_controller returns is, of the ports with a
\* valid heartbeat, the one whose heartbeat came first, and no port with
\* Bluetooth or debug-console in its name is opened.
C29_FirstResponderReturned ==
    /\ \A p \in det.opened : ~skip(p)
    /\ det.pc = "returned" /\ det.result.ok
           => \A q \in Valid :
                  det.probe[det.result.v].elapsed <= det.probe[q].elapsed

\* C30: the MAVLink receive loop never ends; a read failure changes neither
\* the detected set nor the channel; after an I/O error the loop sleeps and
\* after a parse error it goes straight to the end of the iteration; and
\* the loop comes back to its read only from the sleep or from the yield
\* that ends an iteration.
C30_ReadFailuresSurvived ==
    [][ /\ mavPc' # "ended"
        /\ (mavPc = "read" /\ mavPc' \in {"sleep", "skip"})
               => /\ detected_sensors' = detected_sensors
                  /\ mav_tx' = mav_tx
        /\ (mavPc = "sleep" /\ mavPc' # "sleep") => mavPc' = "read"
        /\ (mavPc = "skip" /\ mavPc' # "skip") => mavPc' = "read"
        /\ (mavPc # "read" /\ mavPc' = "read")
               => mavPc \in {"none", "sleep", "skip", "yield"} ]_vars

\* a frame is skipped for a parse error after a sensor has been detected
\* and a message broadcast
C30_Witness ==
    /\ mavPc = "skip"
    /\ detected_sensors # {}
    /\ Len(mav_tx.log) >= 1

\* C31: a decoded message, whatever its kind, goes through exactly one
\* broadcast send before the next read, and the channel takes it at the
\* tail, so the channel holds the messages in the order of their arrival;
\* the detected set changes only by the insertion of the kind of a message
\* of one of the six recognised kinds.
C31_EveryMessageSentOnce ==
    [][ /\ (mavPc = "detect" /\ mavPc' # "detect") => mavPc' = "send"
        /\ (mavPc = "send" /\ mavPc' # "send")
               => /\ mavPc' = "yield"
                  /\ mav_tx.rx_cnt > 0
                         => mav_tx'.log = Append(mav_tx.log, mavMsg)
        /\ mavPc \in {"detect", "send"} => mavMsg' = mavMsg
        /\ mav_tx'.log # mav_tx.log
               => mavPc = "send" /\ mav_tx'.log = Append(mav_tx.log, mavMsg)
        /\ detected_sensors' # detected_sensors
               => /\ Classify(mavMsg) # None
                  /\ detected_sensors'
                         = detected_sensors \cup {Unwrap(Classify(mavMsg))}
                  /\ detected_sensors' \subseteq DetectedKinds ]_vars

\* a HEARTBEAT and a message of an unrecognised kind are in the channel,
\* and the detected set holds the one recognised kind
C31_Witness ==
    /\ \E i, j \in DOMAIN mav_tx.log :
           mav_tx.log[i] = "HEARTBEAT" /\ mav_tx.log[j] = "OTHER"
    /\ detected_sensors = {"ScaledImu"}

\* C32: a MAVLink sensor whose receiver has lagged keeps its message loop:
\* no message loop ever ends.
C32_LoopSurvivesLag == \A s \in MavIds : pc[s] # "ended"

\* C33: the first transaction of every driver's init is the read of the
\* identity register, and an init that returns WrongChipId carries the
\* expected and the actual value and has written no register.
C33_ChipIdReadComesFirst ==
    /\ Len(drv.log) >= 1
           => drv.log[1].op = "read" /\ drv.log[1].what = "chip_id"
    /\ drv.result.kind = "WrongChipId"
           => /\ \A i \in DOMAIN drv.log : drv.log[i].op # "write"
              /\ drv.result.expected = ChipIds(drv.driver)[1]
              /\ drv.result.actual # drv.result.expected

\* C34: an init that ends on a failed bus transaction returns InitError
\* with the sensor's id, whatever the step that failed.
C34_TransportFailureIsInitError ==
    drv.failed_at # 0
        => drv.result.kind = "InitError" /\ drv.result.sensor = drv.sensor

\* the positions of the entries of sensors.toml with the task's sensor id
EntriesOfTask == { i \in DOMAIN spawn.sensors :
                       spawn.sensors[i].id = spawn.sensor_id }

\* the frequency configured for the task's sensor, if any
ConfiguredFrequency ==
    IF EntriesOfTask = {} THEN None
    ELSE spawn.sensors[CHOOSE i \in EntriesOfTask :
                           \A j \in EntriesOfTask : i <= j].frequency

\* floor(1000 / f) for f >= 1
FloorOfThousandOver(f) ==
    IF f > 1000 THEN 0
    ELSE CHOOSE n \in 0..1000 : n * f <= 1000 /\ 1000 < (n + 1) * f

\* C35: the period of a polled task is floor(1000 / frequency) ms for the
\* frequency configured for its sensor id (a frequency of at least 1), and
\* 10 ms when the entry gives none or no entry has the id; the task sleeps
\* exactly this period after every pass of its loop, whether the read
\* succeeded or failed.
C35_PeriodFromFrequency ==
    spawn.pc # "spawn" /\ ConfiguredFrequency # Some(0)
        => /\ spawn.sleep_duration.kind = "ms"
           /\ spawn.sleep_duration.ms =
                  IF ConfiguredFrequency = None THEN 10
                  ELSE FloorOfThousandOver(Unwrap(ConfiguredFrequency))
           /\ \A i \in DOMAIN spawn.slept :
                  spawn.slept[i] = spawn.sleep_duration
           /\ spawn.pc \in {"asleep", "loop"}
                  => Len(spawn.slept) = spawn.passes

\* the task of a sensor configured at 7 Hz is asleep for 142 ms after a
\* failed read that followed a successful one
C35_Witness ==
    /\ spawn.pc = "asleep"
    /\ ConfiguredFrequency = Some(7)
    /\ spawn.last_read = "Err"
    /\ spawn.passes >= 2
    /\ spawn.slept[Len(spawn.slept)].ms = 142

\* C40: whatever frequency the configuration holds, the period of a polled
\* task is a positive, finite number of milliseconds.
C40_PeriodPositiveFinite ==
    spawn.pc # "spawn"
        => spawn.sleep_duration.kind = "ms" /\ spawn.sleep_duration.ms > 0

\* C36: the push path and the polled path derive the same list of messages
\* from the same frame and header, frames with a magnetometer vector
\* included.
C36_SameDerivation ==
    derived.path = "mavlink"
        => derived.messages = SchedulerMessages(frame_in, DeriveHeader)

\* C37: the sensors init_all returns have pairwise distinct ids, with any
\* number of serial buses.
C37_DistinctIds ==
    \A i, j \in DOMAIN reg.sensors :
        i # j => reg.sensors[i].id # reg.sensors[j].id

\* C38 as stated: every kind that is ever in the detected set eventually
\* has a sensor instance.
C38_EveryDetectedKindGetsSensor ==
    \A d \in DetectedKinds :
        [](d \in detected_sensors => <>(pc[MavSensorId(d)] # "absent"))

\* C38: sensor instances are created by the registry's one snapshot only:
\* once init_all has returned, a kind without an instance stays without
\* one, also when it enters the detected set, and every instance is of a
\* kind in the detected set.
C38_OnlySnapshotKindsGetSensor ==
    [][ /\ phase = "running"
            => \A s \in MavIds : pc[s] = "absent" => pc'[s] = "absent"
        /\ \A s \in MavIds :
               pc'[s] # "absent" => KindOfId(s) \in detected_sensors' ]_vars

\* a kind detected after the snapshot: in the set, without an instance
C38_Witness ==
    /\ phase = "running"
    /\ "ScaledImu" \in detected_sensors
    /\ pc["fc_imu0"] = "absent"

\* the register-bus mutexes a task holds.  The detected-set mutex, the
\* sequence mutex and the statistics lock are taken and released with no
\* await point between, inside MavDetect, MavSensorRecv and StatsUpdate.
Held(s) == {b \in I2cBuses : busOwner[b] = s}

\* the steps of the task of sensor s
TaskStep(s) ==
    \/ Lock(s) \/ ReadOk(s) \/ ReadErr(s)
    \/ MavSensorRecv(s) \/ MavSensorLagged(s)
    \/ SendKind(s) \/ SendAll(s) \/ StatsUpdate(s)

====
